---- MODULE Spec2Model ----
(***************************************************************************)
(* Rules engine and search engine of the chess back end (back/game.go and  *)
(* the AI service), modelled as state machines over the ChessGame record.  *)
(***************************************************************************)
EXTENDS Integers, Sequences, FiniteSets, TLC

\* ------------------------------------------------------------------------
\* Colours, piece types, positions, pieces (game.go:5-46)
\* ------------------------------------------------------------------------
White == "white"
Black == "black"
Pawn == "pawn"
Rook == "rook"
Knight == "knight"
Bishop == "bishop"
Queen == "queen"
King == "king"

\* a nil *Piece
Nil == [Type |-> "none", Color |-> "none"]
\* a nil *Position
NilPos == [Row |-> -1, Col |-> -1]

Position(r, c) == [Row |-> r, Col |-> c]
Piece(t, c) == [Type |-> t, Color |-> c]

\* Move{From: from, To: to}: the other fields at their zero values
Move(from, to) == [From |-> from, To |-> to, Piece |-> Nil, CapturedPiece |-> Nil, IsEnPassant |-> FALSE, IsCastle |-> FALSE, IsPromotion |-> FALSE]

Rows == 0..7

opponentColor(color) == IF color = White THEN Black ELSE White

inBounds(pos) == pos.Row >= 0 /\ pos.Row < 8 /\ pos.Col >= 0 /\ pos.Col < 8

abs(x) == IF x < 0 THEN -x ELSE x

sign(x) == IF x > 0 THEN 1 ELSE IF x < 0 THEN -1 ELSE 0

\* ------------------------------------------------------------------------
\* Construction
\* ------------------------------------------------------------------------
pieceOrder == <<Rook, Knight, Bishop, Queen, King, Bishop, Knight, Rook>>

\* off by one: the White pawns set up on row 5
initializeBoard_pawnRow == [i \in Rows |-> [j \in Rows |-> IF i = 0 THEN Piece(pieceOrder[j + 1], Black) ELSE IF i = 1 THEN Piece(Pawn, Black) ELSE IF i = 5 THEN Piece(Pawn, White) ELSE IF i = 7 THEN Piece(pieceOrder[j + 1], White) ELSE Nil]]

initializeBoard == [i \in Rows |-> [j \in Rows |-> IF i = 0 THEN Piece(pieceOrder[j + 1], Black) ELSE IF i = 1 THEN Piece(Pawn, Black) ELSE IF i = 6 THEN Piece(Pawn, White) ELSE IF i = 7 THEN Piece(pieceOrder[j + 1], White) ELSE Nil]]

\* Maps are modelled by their lookup function: a missing key reads as false.
NewChessGame == [Board |-> initializeBoard, CurrentTurn |-> White, GameOver |-> FALSE, Winner |-> "", MoveHistory |-> << >>, EnPassant |-> NilPos, KingMoved |-> [c \in {White, Black} |-> FALSE], RookMoved |-> [c \in {White, Black} |-> [col \in Rows |-> FALSE]]]

\* ------------------------------------------------------------------------
\* Movement patterns
\* ------------------------------------------------------------------------
\* the squares strictly between from and to that the loop of isPathClear visits
pathSquares(from, to) == LET dx == sign(to.Col - from.Col) dy == sign(to.Row - from.Row) n == IF abs(to.Col - from.Col) > abs(to.Row - from.Row) THEN abs(to.Col - from.Col) ELSE abs(to.Row - from.Row) IN {Position(from.Row + k * dy, from.Col + k * dx) : k \in 1..(n - 1)}

isPathClear(g, from, to) == \A sq \in pathSquares(from, to) : g.Board[sq.Row][sq.Col] = Nil

isValidPawnMove(g, from, to, dx, dy, color) ==
  LET direction == IF color = White THEN -1 ELSE 1
      startingRow == IF color = White THEN 6 ELSE 1
  IN \/ dx = 0 /\ dy = direction /\ g.Board[to.Row][to.Col] = Nil
     \/ dx = 0 /\ from.Row = startingRow /\ dy = 2 * direction /\ g.Board[to.Row][to.Col] = Nil
     \/ abs(dx) = 1 /\ dy = direction /\ g.Board[to.Row][to.Col] # Nil
     \/ abs(dx) = 1 /\ dy = direction /\ g.EnPassant # NilPos /\ to.Row = g.EnPassant.Row /\ to.Col = g.EnPassant.Col

isValidRookMove(g, from, to, dx, dy) == IF dx # 0 /\ dy # 0 THEN FALSE ELSE isPathClear(g, from, to)

isValidKnightMove(dx, dy) == (abs(dx) = 2 /\ abs(dy) = 1) \/ (abs(dx) = 1 /\ abs(dy) = 2)

isValidBishopMove(g, from, to, dx, dy) == IF abs(dx) # abs(dy) THEN FALSE ELSE isPathClear(g, from, to)

\* the queen moves along rows and columns only
isValidQueenMove_rookOnly(g, from, to, dx, dy) == isValidRookMove(g, from, to, dx, dy)

isValidQueenMove(g, from, to, dx, dy) == isValidRookMove(g, from, to, dx, dy) \/ isValidBishopMove(g, from, to, dx, dy)

isValidKingMove(from, to, dx, dy) == abs(dx) <= 1 /\ abs(dy) <= 1

isValidPieceMove(g, from, to, piece) ==
  LET dx == to.Col - from.Col
      dy == to.Row - from.Row
  IN CASE piece.Type = Pawn -> isValidPawnMove(g, from, to, dx, dy, piece.Color)
       [] piece.Type = Rook -> isValidRookMove(g, from, to, dx, dy)
       [] piece.Type = Knight -> isValidKnightMove(dx, dy)
       [] piece.Type = Bishop -> isValidBishopMove(g, from, to, dx, dy)
       [] piece.Type = Queen -> isValidQueenMove(g, from, to, dx, dy)
       [] piece.Type = King -> isValidKingMove(from, to, dx, dy)
       [] OTHER -> FALSE

\* ------------------------------------------------------------------------
\* Check detection
\* ------------------------------------------------------------------------
\* squares in the row-major order of the nested loops
SquareSeq == [k \in 1..64 |-> Position((k - 1) \div 8, (k - 1) % 8)]

Squares == {SquareSeq[k] : k \in 1..64}

\* first king of the colour in row-major order, NilPos when there is none
findKing(g, color) ==
  LET ks == {k \in 1..64 : g.Board[SquareSeq[k].Row][SquareSeq[k].Col] = Piece(King, color)}
  IN IF ks = {} THEN NilPos ELSE SquareSeq[CHOOSE k \in ks : \A k2 \in ks : k <= k2]

IsInCheck(g, color) ==
  LET kingPos == findKing(g, color)
  IN IF kingPos = NilPos THEN FALSE
     ELSE \E sq \in Squares : LET piece == g.Board[sq.Row][sq.Col] IN piece # Nil /\ piece.Color = opponentColor(color) /\ isValidPieceMove(g, sq, kingPos, piece)

\* ------------------------------------------------------------------------
\* Legality
\* ------------------------------------------------------------------------
\* the two writes of wouldLeaveKingInCheck before the test
placeMove(g, move) == [[g EXCEPT !.Board[move.To.Row][move.To.Col] = g.Board[move.From.Row][move.From.Col]] EXCEPT !.Board[move.From.Row][move.From.Col] = Nil]

\* the two writes of wouldLeaveKingInCheck after the test
restoreMove(g, move, originalPiece, movingPiece) == [[g EXCEPT !.Board[move.From.Row][move.From.Col] = movingPiece] EXCEPT !.Board[move.To.Row][move.To.Col] = originalPiece]

\* the destination cell is not written back
wouldLeaveKingInCheck_noRestore(g, move) ==
  LET movingPiece == g.Board[move.From.Row][move.From.Col]
      placed == placeMove(g, move)
  IN [inCheck |-> IsInCheck(placed, g.CurrentTurn), game |-> [placed EXCEPT !.Board[move.From.Row][move.From.Col] = movingPiece]]

\* The call writes the move onto the board, tests for check and writes the
\* two cells back; the result carries the verdict and the game as it is left.
wouldLeaveKingInCheck(g, move) ==
  LET originalPiece == g.Board[move.To.Row][move.To.Col]
      movingPiece == g.Board[move.From.Row][move.From.Col]
      placed == placeMove(g, move)
  IN [inCheck |-> IsInCheck(placed, g.CurrentTurn), game |-> restoreMove(placed, move, originalPiece, movingPiece)]

\* the test of the side to move is left out
passesPatternChecks_anyTurn(g, move) ==
  /\ inBounds(move.From) /\ inBounds(move.To)
  /\ g.Board[move.From.Row][move.From.Col] # Nil
  /\ ~(move.From.Row = move.To.Row /\ move.From.Col = move.To.Col)
  /\ ~(g.Board[move.To.Row][move.To.Col] # Nil /\ g.Board[move.To.Row][move.To.Col].Color = g.Board[move.From.Row][move.From.Col].Color)
  /\ isValidPieceMove(g, move.From, move.To, g.Board[move.From.Row][move.From.Col])

\* the checks of IsValidMove that precede the self-check test
passesPatternChecks(g, move) ==
  /\ inBounds(move.From) /\ inBounds(move.To)
  /\ g.Board[move.From.Row][move.From.Col] # Nil
  /\ g.Board[move.From.Row][move.From.Col].Color = g.CurrentTurn
  /\ ~(move.From.Row = move.To.Row /\ move.From.Col = move.To.Col)
  /\ ~(g.Board[move.To.Row][move.To.Col] # Nil /\ g.Board[move.To.Row][move.To.Col].Color = g.Board[move.From.Row][move.From.Col].Color)
  /\ isValidPieceMove(g, move.From, move.To, g.Board[move.From.Row][move.From.Col])

IsValidMove(g, move) == passesPatternChecks(g, move) /\ ~wouldLeaveKingInCheck(g, move).inCheck

\* the game as IsValidMove leaves it when it returns
afterIsValidMove(g, move) == IF passesPatternChecks(g, move) THEN wouldLeaveKingInCheck(g, move).game ELSE g

\* all (from, to) pairs in the order of the four nested loops
AllMoves == [k \in 1..4096 |-> Move(SquareSeq[((k - 1) \div 64) + 1], SquareSeq[((k - 1) % 64) + 1])]

\* the inner two loops: the valid moves from one square, in loop order
movesFrom(g, from) == SelectSeq([k \in 1..64 |-> Move(from, SquareSeq[k])], LAMBDA move : IsValidMove(g, move))

\* the valid moves from the first n of the squares srcs
RECURSIVE movesOf(_, _, _)
movesOf(g, srcs, n) == IF n = 0 THEN << >> ELSE movesOf(g, srcs, n - 1) \o movesFrom(g, srcs[n])

\* the outer two loops skip the squares that hold no piece of the colour
GetValidMoves(g, color) ==
  LET srcs == SelectSeq(SquareSeq, LAMBDA sq : g.Board[sq.Row][sq.Col] # Nil /\ g.Board[sq.Row][sq.Col].Color = color)
  IN movesOf(g, srcs, Len(srcs))

\* a valid move is put in front of the moves collected so far
scanStep_prepends(acc, color, k) ==
  LET move == AllMoves[k]
      piece == acc.game.Board[move.From.Row][move.From.Col]
  IN IF piece = Nil \/ piece.Color # color THEN acc
     ELSE [moves |-> IF IsValidMove(acc.game, move) THEN <<move>> \o acc.moves ELSE acc.moves, game |-> afterIsValidMove(acc.game, move)]

\* GetValidMoves as the loops run it, every IsValidMove call acting on the game
\* the previous call left: the moves collected and the game as it is left.
\* One pass of the innermost loop body, for the k-th (from, to) pair:
scanStep(acc, color, k) ==
  LET move == AllMoves[k]
      piece == acc.game.Board[move.From.Row][move.From.Col]
  IN IF piece = Nil \/ piece.Color # color THEN acc
     ELSE [moves |-> IF IsValidMove(acc.game, move) THEN Append(acc.moves, move) ELSE acc.moves, game |-> afterIsValidMove(acc.game, move)]

\* the passes lo..hi in order (the first half is evaluated before the second
\* starts)
RECURSIVE scanRange(_, _, _, _)
scanRange(acc, color, lo, hi) ==
  IF lo = hi THEN scanStep(acc, color, lo)
  ELSE LET first == scanRange(acc, color, lo, (lo + hi) \div 2)
       IN IF Len(first.moves) >= 0 THEN scanRange(first, color, ((lo + hi) \div 2) + 1, hi) ELSE first

GetValidMovesRun(g, color) == scanRange([moves |-> << >>, game |-> g], color, 1, 4096)

\* ------------------------------------------------------------------------
\* Move execution
\* ------------------------------------------------------------------------
\* the test of the piece's type is left out
updateEnPassant_anyPiece(move) == IF abs(move.To.Row - move.From.Row) = 2 THEN Position((move.From.Row + move.To.Row) \div 2, move.From.Col) ELSE NilPos

updateEnPassant(move) == IF move.Piece.Type = Pawn /\ abs(move.To.Row - move.From.Row) = 2 THEN Position((move.From.Row + move.To.Row) \div 2, move.From.Col) ELSE NilPos

\* the winner of a mate is taken to be the side to move
checkGameOver_winnerSwapped(g) ==
  LET validMoves == GetValidMoves(g, g.CurrentTurn)
  IN IF Len(validMoves) = 0
     THEN [g EXCEPT !.GameOver = TRUE, !.Winner = IF IsInCheck(g, g.CurrentTurn) THEN g.CurrentTurn ELSE "draw"]
     ELSE g

checkGameOver(g) ==
  LET validMoves == GetValidMoves(g, g.CurrentTurn)
  IN IF Len(validMoves) = 0
     THEN [g EXCEPT !.GameOver = TRUE, !.Winner = IF IsInCheck(g, g.CurrentTurn) THEN opponentColor(g.CurrentTurn) ELSE "draw"]
     ELSE g

\* the side to move is left as it was
applyMove_keepsTurn(g, move) ==
  LET from == move.From
      to == move.To
      piece == g.Board[from.Row][from.Col]
      capturedPiece == g.Board[to.Row][to.Col]
      isEP == piece.Type = Pawn /\ g.EnPassant # NilPos /\ to.Row = g.EnPassant.Row /\ to.Col = g.EnPassant.Col
      captureRow == IF piece.Color = White THEN to.Row + 1 ELSE to.Row - 1
      recorded == [move EXCEPT !.Piece = piece, !.CapturedPiece = capturedPiece, !.IsEnPassant = IF isEP THEN TRUE ELSE @]
      b1 == IF isEP THEN [g.Board EXCEPT ![captureRow][to.Col] = Nil] ELSE g.Board
      b2 == [b1 EXCEPT ![to.Row][to.Col] = piece]
      b3 == [b2 EXCEPT ![from.Row][from.Col] = Nil]
  IN [g EXCEPT !.Board = b3,
               !.KingMoved = IF piece.Type = King THEN [@ EXCEPT ![piece.Color] = TRUE] ELSE @,
               !.RookMoved = IF piece.Type = Rook THEN [@ EXCEPT ![piece.Color][from.Col] = TRUE] ELSE @,
               !.EnPassant = updateEnPassant(recorded),
               !.MoveHistory = Append(@, recorded)]

\* a MakeMove that would turn a pawn arriving on the last row into a queen
applyMove_promotes(g, move) ==
  LET from == move.From
      to == move.To
      moved == g.Board[from.Row][from.Col]
      piece == IF moved.Type = Pawn /\ to.Row \in {0, 7} THEN Piece(Queen, moved.Color) ELSE moved
      capturedPiece == g.Board[to.Row][to.Col]
      recorded == [move EXCEPT !.Piece = moved, !.CapturedPiece = capturedPiece]
      b2 == [g.Board EXCEPT ![to.Row][to.Col] = piece]
      b3 == [b2 EXCEPT ![from.Row][from.Col] = Nil]
  IN [g EXCEPT !.Board = b3,
               !.KingMoved = IF moved.Type = King THEN [@ EXCEPT ![moved.Color] = TRUE] ELSE @,
               !.RookMoved = IF moved.Type = Rook THEN [@ EXCEPT ![moved.Color][from.Col] = TRUE] ELSE @,
               !.EnPassant = updateEnPassant(recorded),
               !.MoveHistory = Append(@, recorded),
               !.CurrentTurn = opponentColor(@)]

\* MakeMove up to and including the turn flip
applyMove(g, move) ==
  LET from == move.From
      to == move.To
      piece == g.Board[from.Row][from.Col]
      capturedPiece == g.Board[to.Row][to.Col]
      isEP == piece.Type = Pawn /\ g.EnPassant # NilPos /\ to.Row = g.EnPassant.Row /\ to.Col = g.EnPassant.Col
      captureRow == IF piece.Color = White THEN to.Row + 1 ELSE to.Row - 1
      recorded == [move EXCEPT !.Piece = piece, !.CapturedPiece = capturedPiece, !.IsEnPassant = IF isEP THEN TRUE ELSE @]
      b1 == IF isEP THEN [g.Board EXCEPT ![captureRow][to.Col] = Nil] ELSE g.Board
      b2 == [b1 EXCEPT ![to.Row][to.Col] = piece]
      b3 == [b2 EXCEPT ![from.Row][from.Col] = Nil]
  IN [g EXCEPT !.Board = b3,
               !.KingMoved = IF piece.Type = King THEN [@ EXCEPT ![piece.Color] = TRUE] ELSE @,
               !.RookMoved = IF piece.Type = Rook THEN [@ EXCEPT ![piece.Color][from.Col] = TRUE] ELSE @,
               !.EnPassant = updateEnPassant(recorded),
               !.MoveHistory = Append(@, recorded),
               !.CurrentTurn = opponentColor(@)]

MakeMove(g, move) == checkGameOver(applyMove(g, move))

\* ------------------------------------------------------------------------
\* Clones
\* ------------------------------------------------------------------------
\* a shallow copy: both maps are shared with the original
CopyState_sharesMaps(g) ==
  [game |-> [Board |-> [i \in Rows |-> [j \in Rows |-> IF g.Board[i][j] # Nil THEN Piece(g.Board[i][j].Type, g.Board[i][j].Color) ELSE Nil]],
             CurrentTurn |-> g.CurrentTurn, GameOver |-> g.GameOver, Winner |-> g.Winner,
             MoveHistory |-> [k \in 1..Len(g.MoveHistory) |-> g.MoveHistory[k]],
             EnPassant |-> g.EnPassant, KingMoved |-> g.KingMoved, RookMoved |-> g.RookMoved],
   aliased |-> {"KingMoved", "RookMoved"} \cup (IF g.EnPassant # NilPos THEN {"EnPassant"} ELSE {})]

\* CopyState: the new game and the reference-typed fields it shares with g.
\* The board cells, the history slice and both levels of the maps are new
\* objects filled entry by entry; the en-passant pointer is copied as a
\* pointer. MakeMove writes the maps in place and replaces the pointer.
\* The board is merged with the empty function so that the copy is a value
\* built once, as the loops of the code build it.
CopyState(g) ==
  [game |-> [Board |-> [i \in Rows |-> [j \in Rows |-> IF g.Board[i][j] # Nil THEN Piece(g.Board[i][j].Type, g.Board[i][j].Color) ELSE Nil] @@ << >>] @@ << >>,
             CurrentTurn |-> g.CurrentTurn, GameOver |-> g.GameOver, Winner |-> g.Winner,
             MoveHistory |-> [k \in 1..Len(g.MoveHistory) |-> g.MoveHistory[k]],
             EnPassant |-> g.EnPassant,
             KingMoved |-> [c \in {White, Black} |-> g.KingMoved[c]],
             RookMoved |-> [c \in {White, Black} |-> [col \in Rows |-> g.RookMoved[c][col]]]],
   aliased |-> IF g.EnPassant # NilPos THEN {"EnPassant"} ELSE {}]

\* what MakeMove on one game, leaving it as moved, does to a second game that
\* shares the fields in shared with it: the writes into a shared map show
\* in both
writeThrough(moved, other, shared) ==
  [other EXCEPT !.KingMoved = IF "KingMoved" \in shared THEN moved.KingMoved ELSE @,
                !.RookMoved = IF "RookMoved" \in shared THEN moved.RookMoved ELSE @]

\* ------------------------------------------------------------------------
\* Search engine: constants and tables
\* ------------------------------------------------------------------------
INFINITY == 999999
WIN_SCORE == 100000
DEFAULT_DEPTH == 4

pieceValues(type) == CASE type = Pawn -> 100 [] type = Knight -> 320 [] type = Bishop -> 330 [] type = Rook -> 500 [] type = Queen -> 900 [] type = King -> 20000 [] OTHER -> 0

\* the tables are indexed [row][col] from 0 in the code, from 1 here
pawnTable == <<<<0, 0, 0, 0, 0, 0, 0, 0>>,
  <<50, 50, 50, 50, 50, 50, 50, 50>>,
  <<10, 10, 20, 30, 30, 20, 10, 10>>,
  <<5, 5, 10, 25, 25, 10, 5, 5>>,
  <<0, 0, 0, 20, 20, 0, 0, 0>>,
  <<5, -5, -10, 0, 0, -10, -5, 5>>,
  <<5, 10, 10, -20, -20, 10, 10, 5>>,
  <<0, 0, 0, 0, 0, 0, 0, 0>>>>

knightTable == <<<<-50, -40, -30, -30, -30, -30, -40, -50>>,
  <<-40, -20, 0, 0, 0, 0, -20, -40>>,
  <<-30, 0, 10, 15, 15, 10, 0, -30>>,
  <<-30, 5, 15, 20, 20, 15, 5, -30>>,
  <<-30, 0, 15, 20, 20, 15, 0, -30>>,
  <<-30, 5, 10, 15, 15, 10, 5, -30>>,
  <<-40, -20, 0, 5, 5, 0, -20, -40>>,
  <<-50, -40, -30, -30, -30, -30, -40, -50>>>>

bishopTable == <<<<-20, -10, -10, -10, -10, -10, -10, -20>>,
  <<-10, 0, 0, 0, 0, 0, 0, -10>>,
  <<-10, 0, 5, 10, 10, 5, 0, -10>>,
  <<-10, 5, 5, 10, 10, 5, 5, -10>>,
  <<-10, 0, 10, 10, 10, 10, 0, -10>>,
  <<-10, 10, 10, 10, 10, 10, 10, -10>>,
  <<-10, 5, 0, 0, 0, 0, 5, -10>>,
  <<-20, -10, -10, -10, -10, -10, -10, -20>>>>

rookTable == <<<<0, 0, 0, 0, 0, 0, 0, 0>>,
  <<5, 10, 10, 10, 10, 10, 10, 5>>,
  <<-5, 0, 0, 0, 0, 0, 0, -5>>,
  <<-5, 0, 0, 0, 0, 0, 0, -5>>,
  <<-5, 0, 0, 0, 0, 0, 0, -5>>,
  <<-5, 0, 0, 0, 0, 0, 0, -5>>,
  <<-5, 0, 0, 0, 0, 0, 0, -5>>,
  <<0, 0, 0, 5, 5, 0, 0, 0>>>>

queenTable == <<<<-20, -10, -10, -5, -5, -10, -10, -20>>,
  <<-10, 0, 0, 0, 0, 0, 0, -10>>,
  <<-10, 0, 5, 5, 5, 5, 0, -10>>,
  <<-5, 0, 5, 5, 5, 5, 0, -5>>,
  <<0, 0, 5, 5, 5, 5, 0, -5>>,
  <<-10, 5, 5, 5, 5, 5, 0, -10>>,
  <<-10, 0, 5, 0, 0, 0, 0, -10>>,
  <<-20, -10, -10, -5, -5, -10, -10, -20>>>>

kingTable == <<<<-30, -40, -40, -50, -50, -40, -40, -30>>,
  <<-30, -40, -40, -50, -50, -40, -40, -30>>,
  <<-30, -40, -40, -50, -50, -40, -40, -30>>,
  <<-30, -40, -40, -50, -50, -40, -40, -30>>,
  <<-20, -30, -30, -40, -40, -30, -30, -20>>,
  <<-10, -20, -20, -20, -20, -20, -20, -10>>,
  <<20, 20, 0, 0, 0, 0, 20, 20>>,
  <<20, 30, 10, 0, 0, 10, 30, 20>>>>

max(a, b) == IF a > b THEN a ELSE b

min(a, b) == IF a < b THEN a ELSE b

\* ------------------------------------------------------------------------
\* Position evaluation
\* ------------------------------------------------------------------------
\* an evaluatePiece that would read the tables with the row as it is for both colours
evaluatePiece_noFlip(piece, row, col) ==
  LET positionValue == CASE piece.Type = Pawn -> pawnTable[row + 1][col + 1]
                         [] piece.Type = Knight -> knightTable[row + 1][col + 1]
                         [] piece.Type = Bishop -> bishopTable[row + 1][col + 1]
                         [] piece.Type = Rook -> rookTable[row + 1][col + 1]
                         [] piece.Type = Queen -> queenTable[row + 1][col + 1]
                         [] piece.Type = King -> kingTable[row + 1][col + 1]
                         [] OTHER -> 0
  IN pieceValues(piece.Type) + positionValue

evaluatePiece(piece, row, col) ==
  LET baseValue == pieceValues(piece.Type)
      evalRow == IF piece.Color = White THEN 7 - row ELSE row
      positionValue == CASE piece.Type = Pawn -> pawnTable[evalRow + 1][col + 1]
                         [] piece.Type = Knight -> knightTable[evalRow + 1][col + 1]
                         [] piece.Type = Bishop -> bishopTable[evalRow + 1][col + 1]
                         [] piece.Type = Rook -> rookTable[evalRow + 1][col + 1]
                         [] piece.Type = Queen -> queenTable[evalRow + 1][col + 1]
                         [] piece.Type = King -> kingTable[evalRow + 1][col + 1]
                         [] OTHER -> 0
  IN baseValue + positionValue

isSquareControlledBy(g, pos, color) == \E sq \in Squares : g.Board[sq.Row][sq.Col] # Nil /\ g.Board[sq.Row][sq.Col].Color = color /\ isValidPieceMove(g, sq, pos, g.Board[sq.Row][sq.Col])

evaluateKingSafety(kingPos, color, g) ==
  LET centre == IF kingPos.Row >= 2 /\ kingPos.Row <= 5 /\ kingPos.Col >= 2 /\ kingPos.Col <= 5 THEN -30 ELSE 0
      expectedBackRank == IF color = Black THEN 0 ELSE 7
      backRank == IF kingPos.Row = expectedBackRank THEN 20 ELSE 0
      direction == IF color = Black THEN 1 ELSE -1
      pawnShield == Cardinality({colOffset \in {-1, 0, 1} : inBounds(Position(kingPos.Row + direction, kingPos.Col + colOffset)) /\ g.Board[kingPos.Row + direction][kingPos.Col + colOffset] = Piece(Pawn, color)})
  IN centre + backRank + pawnShield * 10

centerSquares == {Position(3, 3), Position(3, 4), Position(4, 3), Position(4, 4)}

extendedCenter == {Position(2, 2), Position(2, 3), Position(2, 4), Position(2, 5), Position(3, 2), Position(3, 5), Position(4, 2), Position(4, 5), Position(5, 2), Position(5, 3), Position(5, 4), Position(5, 5)}

\* the mobility term: the two counts of valid moves
mobility(g) ==
  LET blackMoves == Len(GetValidMoves(g, Black))
      whiteMoves == Len(GetValidMoves(g, White))
  IN (blackMoves - whiteMoves) * 2

evaluatePositionalFactors(g) ==
  LET controlled(squares, color) == Cardinality({pos \in squares : isSquareControlledBy(g, pos, color)})
      blackKing == findKing(g, Black)
      whiteKing == findKing(g, White)
  IN 15 * controlled(centerSquares, Black) - 15 * controlled(centerSquares, White)
     + 5 * controlled(extendedCenter, Black) - 5 * controlled(extendedCenter, White)
     + (IF blackKing # NilPos THEN evaluateKingSafety(blackKing, Black, g) ELSE 0)
     - (IF whiteKing # NilPos THEN evaluateKingSafety(whiteKing, White, g) ELSE 0)
     + mobility(g)

\* what the square (i, j) adds to the score
squareScore(g, i, j) == IF g.Board[i][j] = Nil THEN 0 ELSE IF g.Board[i][j].Color = Black THEN evaluatePiece(g.Board[i][j], i, j) ELSE 0 - evaluatePiece(g.Board[i][j], i, j)

rowScore(g, i) == squareScore(g, i, 0) + squareScore(g, i, 1) + squareScore(g, i, 2) + squareScore(g, i, 3) + squareScore(g, i, 4) + squareScore(g, i, 5) + squareScore(g, i, 6) + squareScore(g, i, 7)

evaluatePosition(g) ==
  IF g.GameOver
  THEN IF g.Winner = Black THEN WIN_SCORE ELSE IF g.Winner = White THEN 0 - WIN_SCORE ELSE 0
  ELSE rowScore(g, 0) + rowScore(g, 1) + rowScore(g, 2) + rowScore(g, 3) + rowScore(g, 4) + rowScore(g, 5) + rowScore(g, 6) + rowScore(g, 7) + evaluatePositionalFactors(g)

\* ------------------------------------------------------------------------
\* Minimax with alpha-beta pruning
\* ------------------------------------------------------------------------
RECURSIVE minimax(_, _, _, _, _)
RECURSIVE maximize(_, _, _, _, _, _, _)
RECURSIVE minimize(_, _, _, _, _, _, _)

\* the cut-off comes early: the loop stops while beta is still above alpha
maximize_cutsAtMargin(g, moves, k, depth, alpha, beta, maxEval) ==
  IF k > Len(moves) THEN maxEval
  ELSE LET eval == minimax(MakeMove(CopyState(g).game, moves[k]), depth - 1, alpha, beta, FALSE)
       IN IF beta <= max(alpha, eval) + 30 THEN max(maxEval, eval)
          ELSE maximize(g, moves, k + 1, depth, max(alpha, eval), beta, max(maxEval, eval))

\* the loop of the maximizing branch from its k-th move on
maximize(g, moves, k, depth, alpha, beta, maxEval) ==
  IF k > Len(moves) THEN maxEval
  ELSE LET eval == minimax(MakeMove(CopyState(g).game, moves[k]), depth - 1, alpha, beta, FALSE)
       IN IF beta <= max(alpha, eval) THEN max(maxEval, eval)
          ELSE maximize(g, moves, k + 1, depth, max(alpha, eval), beta, max(maxEval, eval))

\* the loop of the minimizing branch from its k-th move on
minimize(g, moves, k, depth, alpha, beta, minEval) ==
  IF k > Len(moves) THEN minEval
  ELSE LET eval == minimax(MakeMove(CopyState(g).game, moves[k]), depth - 1, alpha, beta, TRUE)
       IN IF min(beta, eval) <= alpha THEN min(minEval, eval)
          ELSE minimize(g, moves, k + 1, depth, alpha, min(beta, eval), min(minEval, eval))

\* a win counts the same at every depth
minimax_flatWin(g, depth, alpha, beta, isMaximizing) ==
  IF depth = 0 THEN evaluatePosition(g)
  ELSE IF g.GameOver
       THEN IF g.Winner = Black THEN WIN_SCORE ELSE IF g.Winner = White THEN 0 - WIN_SCORE ELSE 0
       ELSE IF isMaximizing THEN maximize(g, GetValidMoves(g, Black), 1, depth, alpha, beta, 0 - INFINITY)
            ELSE minimize(g, GetValidMoves(g, White), 1, depth, alpha, beta, INFINITY)

minimax(g, depth, alpha, beta, isMaximizing) ==
  IF depth = 0 THEN evaluatePosition(g)
  ELSE IF g.GameOver
       THEN IF g.Winner = Black THEN WIN_SCORE + depth ELSE IF g.Winner = White THEN 0 - WIN_SCORE - depth ELSE 0
       ELSE IF isMaximizing THEN maximize(g, GetValidMoves(g, Black), 1, depth, alpha, beta, 0 - INFINITY)
            ELSE minimize(g, GetValidMoves(g, White), 1, depth, alpha, beta, INFINITY)

RECURSIVE minimaxNodes(_, _, _, _, _)
RECURSIVE maximizeNodes(_, _, _, _, _, _)
RECURSIVE minimizeNodes(_, _, _, _, _, _)

\* the recursive call of the minimizing branch passes its own flag on
minimizeNodes_keepsFlag(g, moves, k, depth, alpha, beta) ==
  IF k > Len(moves) THEN {}
  ELSE LET eval == minimax(MakeMove(CopyState(g).game, moves[k]), depth - 1, alpha, beta, TRUE)
       IN minimaxNodes(MakeMove(CopyState(g).game, moves[k]), depth - 1, alpha, beta, FALSE)
            \cup (IF min(beta, eval) <= alpha THEN {} ELSE minimizeNodes(g, moves, k + 1, depth, alpha, min(beta, eval)))

\* the calls of minimax made by the maximizing branch from its k-th move on
maximizeNodes(g, moves, k, depth, alpha, beta) ==
  IF k > Len(moves) THEN {}
  ELSE LET eval == minimax(MakeMove(CopyState(g).game, moves[k]), depth - 1, alpha, beta, FALSE)
       IN minimaxNodes(MakeMove(CopyState(g).game, moves[k]), depth - 1, alpha, beta, FALSE)
            \cup (IF beta <= max(alpha, eval) THEN {} ELSE maximizeNodes(g, moves, k + 1, depth, max(alpha, eval), beta))

\* the calls of minimax made by the minimizing branch from its k-th move on
minimizeNodes(g, moves, k, depth, alpha, beta) ==
  IF k > Len(moves) THEN {}
  ELSE LET eval == minimax(MakeMove(CopyState(g).game, moves[k]), depth - 1, alpha, beta, TRUE)
       IN minimaxNodes(MakeMove(CopyState(g).game, moves[k]), depth - 1, alpha, beta, TRUE)
            \cup (IF min(beta, eval) <= alpha THEN {} ELSE minimizeNodes(g, moves, k + 1, depth, alpha, min(beta, eval)))

\* the calls of minimax under this one that get past the terminal cases, each
\* as the side to move of its game and its isMaximizing
minimaxNodes(g, depth, alpha, beta, isMaximizing) ==
  IF depth = 0 \/ g.GameOver THEN {}
  ELSE {<<g.CurrentTurn, isMaximizing>>}
         \cup (IF isMaximizing THEN maximizeNodes(g, GetValidMoves(g, Black), 1, depth, alpha, beta)
               ELSE minimizeNodes(g, GetValidMoves(g, White), 1, depth, alpha, beta))

RECURSIVE minimaxCalls(_, _, _, _, _, _)
RECURSIVE maximizeCalls(_, _, _, _, _, _)
RECURSIVE minimizeCalls(_, _, _, _, _, _)

\* the calls of minimax made by the maximizing branch from its k-th move on
maximizeCalls(g, moves, k, depth, alpha, beta) ==
  IF k > Len(moves) THEN {}
  ELSE LET eval == minimax(MakeMove(CopyState(g).game, moves[k]), depth - 1, alpha, beta, FALSE)
       IN minimaxCalls(MakeMove(CopyState(g).game, moves[k]), depth - 1, alpha, beta, FALSE, depth)
            \cup (IF beta <= max(alpha, eval) THEN {} ELSE maximizeCalls(g, moves, k + 1, depth, max(alpha, eval), beta))

\* the calls of minimax made by the minimizing branch from its k-th move on
minimizeCalls(g, moves, k, depth, alpha, beta) ==
  IF k > Len(moves) THEN {}
  ELSE LET eval == minimax(MakeMove(CopyState(g).game, moves[k]), depth - 1, alpha, beta, TRUE)
       IN minimaxCalls(MakeMove(CopyState(g).game, moves[k]), depth - 1, alpha, beta, TRUE, depth)
            \cup (IF min(beta, eval) <= alpha THEN {} ELSE minimizeCalls(g, moves, k + 1, depth, alpha, min(beta, eval)))

\* this call of minimax and the calls under it, each as the depth of its
\* caller, its own depth and whether it went on to enumerate moves
minimaxCalls(g, depth, alpha, beta, isMaximizing, callerDepth) ==
  {<<callerDepth, depth, ~(depth = 0 \/ g.GameOver)>>}
    \cup (IF depth = 0 \/ g.GameOver THEN {}
          ELSE IF isMaximizing THEN maximizeCalls(g, GetValidMoves(g, Black), 1, depth, alpha, beta)
          ELSE minimizeCalls(g, GetValidMoves(g, White), 1, depth, alpha, beta))

\* the search is called at the depth of the service
searchCalls_sameDepth(g, depth, move) == minimaxCalls(MakeMove(CopyState(g).game, move), depth, 0 - INFINITY, INFINITY, FALSE, depth)

\* the calls of minimax of one pass of the loop of getBestMoveSync
searchCalls(g, depth, move) == minimaxCalls(MakeMove(CopyState(g).game, move), depth - 1, 0 - INFINITY, INFINITY, FALSE, depth)

\* one pass of the loop of getBestMoveSync: the value of a candidate move
candidateValue(g, depth, move) == minimax(MakeMove(CopyState(g).game, move), depth - 1, 0 - INFINITY, INFINITY, FALSE)

\* a depth of 0 is taken
SetDepth_acceptsZero(depth, d) == IF d < 0 \/ d > 10 THEN [depth |-> depth, err |-> "depth must be between 1 and 10"] ELSE [depth |-> d, err |-> ""]

\* SetDepth: the depth the service is left with and the error returned
SetDepth(depth, d) == IF d < 1 \/ d > 10 THEN [depth |-> depth, err |-> "depth must be between 1 and 10"] ELSE [depth |-> d, err |-> ""]

\* hard is one ply short
SetDifficulty_hardFive(depth, level) ==
  CASE level \in {"easy", "Easy"} -> [depth |-> 2, err |-> ""]
    [] level \in {"medium", "Medium"} -> [depth |-> 4, err |-> ""]
    [] level \in {"hard", "Hard"} -> [depth |-> 5, err |-> ""]
    [] level \in {"expert", "Expert"} -> [depth |-> 8, err |-> ""]
    [] OTHER -> [depth |-> depth, err |-> "invalid difficulty level"]

\* SetDifficulty: the depth the service is left with and the error returned
SetDifficulty(depth, level) ==
  CASE level \in {"easy", "Easy"} -> [depth |-> 2, err |-> ""]
    [] level \in {"medium", "Medium"} -> [depth |-> 4, err |-> ""]
    [] level \in {"hard", "Hard"} -> [depth |-> 6, err |-> ""]
    [] level \in {"expert", "Expert"} -> [depth |-> 8, err |-> ""]
    [] OTHER -> [depth |-> depth, err |-> "invalid difficulty level"]

\* GetDepth of a service
GetDepth(service) == service.depth

\* ------------------------------------------------------------------------
\* Service layer
\* ------------------------------------------------------------------------
\* the request is applied when it passes the pattern checks, whatever the
\* self-check test says
MakePlayerMove_skipsSelfCheck(g, from, to) ==
  LET move == Move(from, to)
      checked == afterIsValidMove(g, move)
  IN IF ~passesPatternChecks(g, move) THEN [game |-> checked, err |-> "invalid move"]
     ELSE [game |-> MakeMove(checked, move), err |-> ""]

\* ChessService.MakePlayerMove on game g: the game it leaves and the error it
\* returns ("" for nil)
MakePlayerMove(g, from, to) ==
  LET move == Move(from, to)
      checked == afterIsValidMove(g, move)
  IN IF ~IsValidMove(g, move) THEN [game |-> checked, err |-> "invalid move"]
     ELSE [game |-> MakeMove(checked, move), err |-> ""]

\* ------------------------------------------------------------------------
\* Requests explored: scripted games from the starting position, every first
\* move, and a bounded number of unscripted moves after a scripted game
\* ------------------------------------------------------------------------
MaxFree == 1

\* c2c3 g7g5 d1a4 g5g4 a2a3 f7f6 b2b3 e8f7 a1a2 f7g6 a2a1 g6h5 a1a2 h5h4 f2f4 g4f3 a4h4
EnPassantPinLine == <<<<6, 2, 5, 2>>, <<1, 6, 3, 6>>, <<7, 3, 4, 0>>, <<3, 6, 4, 6>>, <<6, 0, 5, 0>>, <<1, 5, 2, 5>>, <<6, 1, 5, 1>>, <<0, 4, 1, 5>>, <<7, 0, 6, 0>>, <<1, 5, 2, 6>>, <<6, 0, 7, 0>>, <<2, 6, 3, 7>>, <<7, 0, 6, 0>>, <<3, 7, 4, 7>>, <<6, 5, 4, 5>>, <<4, 6, 5, 5>>, <<4, 0, 4, 7>>>>

\* e2e4 e7e5 d1h5 b8c6 f1c4 g8f6 h5f7
MateLine == <<<<6, 4, 4, 4>>, <<1, 4, 3, 4>>, <<7, 3, 3, 7>>, <<0, 1, 2, 2>>, <<7, 5, 4, 2>>, <<0, 6, 2, 5>>, <<3, 7, 1, 5>>>>

\* b1c3 a7a6
JumpLine == <<<<7, 1, 5, 2>>, <<1, 0, 2, 0>>>>

\* b1c3 b7b5 a2a3 b5b4 c2c4 b4c3
JumpCaptureLine == <<<<7, 1, 5, 2>>, <<1, 1, 3, 1>>, <<6, 0, 5, 0>>, <<3, 1, 4, 1>>, <<6, 2, 4, 2>>, <<4, 1, 5, 2>>>>

\* g2g3 f7f5 f2f3 h7h5 f1g2 h8h7 a2a4 h7h8 e1f2 g7g6 g2h3 f8g7 e2e4 f5e4 h3d7 c8d7 f3e4 d7a4 d1h5 h8h5 a1a4 h5h2 h1h2 g7b2 c1b2 d8d2 b1d2 e7e5 b2e5 b7b6 e5c7 g8f6 c7b6 a7b6 a4a8 f6e4 f2f1 e4g3 f1e1 g6g5 a8b8 e8f7 h2g2 b6b5 b8b5 f7g7 g2g3 g7h6 b5g5 h6h7 g5g4 h7h8 g4g7
StalemateLine == <<<<6, 6, 5, 6>>, <<1, 5, 3, 5>>, <<6, 5, 5, 5>>, <<1, 7, 3, 7>>, <<7, 5, 6, 6>>, <<0, 7, 1, 7>>, <<6, 0, 4, 0>>, <<1, 7, 0, 7>>, <<7, 4, 6, 5>>, <<1, 6, 2, 6>>, <<6, 6, 5, 7>>, <<0, 5, 1, 6>>, <<6, 4, 4, 4>>, <<3, 5, 4, 4>>, <<5, 7, 1, 3>>, <<0, 2, 1, 3>>, <<5, 5, 4, 4>>, <<1, 3, 4, 0>>, <<7, 3, 3, 7>>, <<0, 7, 3, 7>>, <<7, 0, 4, 0>>, <<3, 7, 6, 7>>, <<7, 7, 6, 7>>, <<1, 6, 6, 1>>, <<7, 2, 6, 1>>, <<0, 3, 6, 3>>, <<7, 1, 6, 3>>, <<1, 4, 3, 4>>, <<6, 1, 3, 4>>, <<1, 1, 2, 1>>, <<3, 4, 1, 2>>, <<0, 6, 2, 5>>, <<1, 2, 2, 1>>, <<1, 0, 2, 1>>, <<4, 0, 0, 0>>, <<2, 5, 4, 4>>, <<6, 5, 7, 5>>, <<4, 4, 5, 6>>, <<7, 5, 7, 4>>, <<2, 6, 3, 6>>, <<0, 0, 0, 1>>, <<0, 4, 1, 5>>, <<6, 7, 6, 6>>, <<2, 1, 3, 1>>, <<0, 1, 3, 1>>, <<1, 5, 1, 6>>, <<6, 6, 5, 6>>, <<1, 6, 2, 7>>, <<3, 1, 3, 6>>, <<2, 7, 1, 7>>, <<3, 6, 4, 6>>, <<1, 7, 0, 7>>, <<4, 6, 1, 6>>>>

\* b2b4 b7b5 b1c3 e7e5 c3b5 f8b4 b5a7 b4d2 d1d2 g8h6 a7c8 a8a2 d2h6 a2c2 h6g7 c2c1 a1c1 d8c8 g7h7 h8h7 c1c7 h7h2 c7d7 c8c2 h1h2 c2e2 e1e2 e8d7 e2d1 d7c8 d1e1 c8d8 f1d3 f7f6 d3a6 b8a6 e1e2 a6b8 e2d1 f6f5 g1f3 f5f4 f3e5 b8d7 e5d7 d8d7 d1c1 d7d8 g2g3 f4g3 c1c2 g3f2 h2f2
RookEndLine == <<<<6, 1, 4, 1>>, <<1, 1, 3, 1>>, <<7, 1, 5, 2>>, <<1, 4, 3, 4>>, <<5, 2, 3, 1>>, <<0, 5, 4, 1>>, <<3, 1, 1, 0>>, <<4, 1, 6, 3>>, <<7, 3, 6, 3>>, <<0, 6, 2, 7>>, <<1, 0, 0, 2>>, <<0, 0, 6, 0>>, <<6, 3, 2, 7>>, <<6, 0, 6, 2>>, <<2, 7, 1, 6>>, <<6, 2, 7, 2>>, <<7, 0, 7, 2>>, <<0, 3, 0, 2>>, <<1, 6, 1, 7>>, <<0, 7, 1, 7>>, <<7, 2, 1, 2>>, <<1, 7, 6, 7>>, <<1, 2, 1, 3>>, <<0, 2, 6, 2>>, <<7, 7, 6, 7>>, <<6, 2, 6, 4>>, <<7, 4, 6, 4>>, <<0, 4, 1, 3>>, <<6, 4, 7, 3>>, <<1, 3, 0, 2>>, <<7, 3, 7, 4>>, <<0, 2, 0, 3>>, <<7, 5, 5, 3>>, <<1, 5, 2, 5>>, <<5, 3, 2, 0>>, <<0, 1, 2, 0>>, <<7, 4, 6, 4>>, <<2, 0, 0, 1>>, <<6, 4, 7, 3>>, <<2, 5, 3, 5>>, <<7, 6, 5, 5>>, <<3, 5, 4, 5>>, <<5, 5, 3, 4>>, <<0, 1, 1, 3>>, <<3, 4, 1, 3>>, <<0, 3, 1, 3>>, <<7, 3, 7, 2>>, <<1, 3, 0, 3>>, <<6, 6, 5, 6>>, <<4, 5, 5, 6>>, <<7, 2, 6, 2>>, <<5, 6, 6, 5>>, <<6, 7, 6, 5>>>>

\* d2d4 c7c5 d4c5 h7h6 d1d7 b8d7 c1h6 d7c5 h6g7 h8h2 g7f8 h2h1 f8e7 g8e7 f2f3 c5a4 e2e4 a4b2 a2a4 h1g1 g2g4 b2a4 a1a4 g1f1 e1f1 e8f8 a4a7 c8g4 a7b7 g4f3 b7e7 d8e7 b1c3 e7e4 c3e4 f3e4 f1e1 e4c2 e1d2 f7f5 d2c2
PawnEndLine == <<<<6, 3, 4, 3>>, <<1, 2, 3, 2>>, <<4, 3, 3, 2>>, <<1, 7, 2, 7>>, <<7, 3, 1, 3>>, <<0, 1, 1, 3>>, <<7, 2, 2, 7>>, <<1, 3, 3, 2>>, <<2, 7, 1, 6>>, <<0, 7, 6, 7>>, <<1, 6, 0, 5>>, <<6, 7, 7, 7>>, <<0, 5, 1, 4>>, <<0, 6, 1, 4>>, <<6, 5, 5, 5>>, <<3, 2, 4, 0>>, <<6, 4, 4, 4>>, <<4, 0, 6, 1>>, <<6, 0, 4, 0>>, <<7, 7, 7, 6>>, <<6, 6, 4, 6>>, <<6, 1, 4, 0>>, <<7, 0, 4, 0>>, <<7, 6, 7, 5>>, <<7, 4, 7, 5>>, <<0, 4, 0, 5>>, <<4, 0, 1, 0>>, <<0, 2, 4, 6>>, <<1, 0, 1, 1>>, <<4, 6, 5, 5>>, <<1, 1, 1, 4>>, <<0, 3, 1, 4>>, <<7, 1, 5, 2>>, <<1, 4, 4, 4>>, <<5, 2, 4, 4>>, <<5, 5, 4, 4>>, <<7, 5, 7, 4>>, <<4, 4, 6, 2>>, <<7, 4, 6, 3>>, <<1, 5, 3, 5>>, <<6, 3, 6, 2>>>>

\* the pawn ending, then a8b8 c2c3 b8b3 c3b3 f5f4 b3c3
KingPawnLine == PawnEndLine \o <<<<0, 0, 0, 1>>, <<6, 2, 5, 2>>, <<0, 1, 5, 1>>, <<5, 2, 5, 1>>, <<3, 5, 4, 5>>, <<5, 1, 5, 2>>>>

\* the scripted games after which unscripted moves are explored
\* KingPawnLine, then the pawn walks to the last row and the kings to corners
CornerLine == KingPawnLine \o <<<<4, 5, 5, 5>>, <<5, 2, 6, 2>>, <<5, 5, 6, 5>>, <<6, 2, 6, 1>>, <<6, 5, 7, 5>>, <<6, 1, 7, 0>>, <<0, 5, 0, 6>>, <<7, 0, 7, 1>>, <<0, 6, 0, 7>>, <<7, 1, 7, 0>>>>

\* e2e4 a7a6 e4e5 a6a5 e1e2 a5a4 e2e3 h7h6 e3e4 d7d5
EnPassantCheckLine == <<<<6, 4, 4, 4>>, <<1, 0, 2, 0>>, <<4, 4, 3, 4>>, <<2, 0, 3, 0>>, <<7, 4, 6, 4>>, <<3, 0, 4, 0>>, <<6, 4, 5, 4>>, <<1, 7, 2, 7>>, <<5, 4, 4, 4>>, <<1, 3, 3, 3>>>>

FreeLines == <<RookEndLine>>

\* h2h4 g7g5 h4g5 h7h6 g5h6 a7a6 h6h7 a6a5 h7g8: a pawn reaches the last row
PromotionLine == <<<<6, 7, 4, 7>>, <<1, 6, 3, 6>>, <<4, 7, 3, 6>>, <<1, 7, 2, 7>>, <<3, 6, 2, 7>>, <<1, 0, 2, 0>>, <<2, 7, 1, 7>>, <<2, 0, 3, 0>>, <<1, 7, 0, 6>>>>

Lines == <<EnPassantPinLine, MateLine, JumpLine, StalemateLine, RookEndLine, EnPassantCheckLine, JumpCaptureLine, PromotionLine>>

moveKey(m) == <<m.From.Row, m.From.Col, m.To.Row, m.To.Col>>

isPrefix(line, h, n) == \A i \in 1..n : moveKey(h[i]) = line[i]

\* the next moves of the scripted games that h follows
Scripted(lines, h) == {<<Position(lines[k][Len(h) + 1][1], lines[k][Len(h) + 1][2]), Position(lines[k][Len(h) + 1][3], lines[k][Len(h) + 1][4])>> : k \in {k \in DOMAIN lines : Len(h) < Len(lines[k]) /\ isPrefix(lines[k], h, Len(h))}}

Unscripted(lines, h) == \E k \in DOMAIN lines : Len(h) >= Len(lines[k]) /\ Len(h) < Len(lines[k]) + MaxFree /\ isPrefix(lines[k], h, Len(lines[k]))

\* the (from, to) requests explored after history h
Explored(h) == Scripted(Lines, h) \cup (IF h = << >> \/ Unscripted(FreeLines, h) THEN Squares \X Squares ELSE {})

\* request coordinates: every square and some positions off the board
OffBoard == {Position(-1, 0), Position(8, 7), Position(3, -1), Position(4, 8)}

RequestPositions == Squares \cup OffBoard

OffBoardRequests == {<<Position(-1, 0), Position(0, 0)>>, <<Position(7, 7), Position(8, 7)>>, <<Position(3, -1), Position(4, 8)>>, <<Position(6, 4), Position(4, 8)>>}

\* the game a scripted line leads to after its first n moves, each requested
\* of the service from the starting position
\* the requests lo..hi of the line in order (the first half is evaluated before
\* the second starts)
RECURSIVE replayRange(_, _, _, _)
replayRange(g, line, lo, hi) ==
  IF lo > hi THEN g
  ELSE IF lo = hi THEN MakePlayerMove(g, Position(line[lo][1], line[lo][2]), Position(line[lo][3], line[lo][4])).game
  ELSE LET first == replayRange(g, line, lo, (lo + hi) \div 2)
       IN IF first.GameOver \in BOOLEAN THEN replayRange(first, line, ((lo + hi) \div 2) + 1, hi) ELSE first

Replay(line, n) == replayRange(NewChessGame, line, 1, n)

\* ------------------------------------------------------------------------
\* State
\* ------------------------------------------------------------------------
\* game: the service's game; resp: the last operation and its error;
\* clone, aliased: a game made by CopyState and the reference fields it
\* shares with game
\* ai: the AI service's depth and the frame of getBestMoveSync;
\* call: the frame of GetBestMove, its context and its result channel;
\* scan: the frame of a GetValidMoves call running on game step by step
VARIABLES game, resp, clone, aliased, ai, call, scan

vars == <<game, resp, clone, aliased, ai, call, scan>>

cloneVars == <<clone, aliased>>

aiVars == <<ai, call, scan>>

NoResp == [op |-> "", err |-> ""]

\* no clone made; base is the length the clone's history was made with
NoClone == [game |-> Nil, base |-> 0]

\* a nil *Move
NoMove == Move(NilPos, NilPos)

\* NewAIService, getBestMoveSync not running
NewAIService == [depth |-> DEFAULT_DEPTH, pc |-> "idle", moves |-> << >>, i |-> 0, bestMove |-> NoMove, bestValue |-> 0]

NoRet == [move |-> NoMove, err |-> ""]

\* GetBestMove not called; events lists the deadline's firing and the worker's
\* delivery in the order they happen
NoCall == [pc |-> "idle", entry |-> Nil, moves |-> << >>, ctxDone |-> FALSE, resultChan |-> << >>, ret |-> NoRet, events |-> << >>]

NoScan == [k |-> 0, placed |-> FALSE, originalPiece |-> Nil, movingPiece |-> Nil, validMoves |-> << >>]

Init ==
  /\ game = NewChessGame
  /\ resp = NoResp
  /\ clone = NoClone
  /\ aliased = {}
  /\ ai = NewAIService
  /\ call = NoCall
  /\ scan = NoScan

\* a request the rules accept: validated and applied
PlayerMoveAccepted == \E req \in Explored(game.MoveHistory) :
  /\ IsValidMove(game, Move(req[1], req[2]))
  /\ LET out == MakePlayerMove(game, req[1], req[2])
     IN game' = out.game /\ resp' = [op |-> "MakePlayerMove", err |-> out.err]
  /\ UNCHANGED <<cloneVars, aiVars>>

\* a request the rules reject; explored are some requests with an endpoint off
\* the board and every request that gets as far as the self-check test
PlayerMoveRejected == \E req \in OffBoardRequests \cup {r \in {sq \in Squares : game.Board[sq.Row][sq.Col] # Nil} \X Squares : passesPatternChecks(game, Move(r[1], r[2]))} :
  /\ ~IsValidMove(game, Move(req[1], req[2]))
  /\ LET out == MakePlayerMove(game, req[1], req[2])
     IN game' = out.game /\ resp' = [op |-> "MakePlayerMove", err |-> out.err]
  /\ UNCHANGED <<cloneVars, aiVars>>

\* a NewGame that would set up the board again and keep the moved flags
NewGame_keepsFlags ==
  /\ game' = [NewChessGame EXCEPT !.KingMoved = game.KingMoved, !.RookMoved = game.RookMoved]
  /\ resp' = [op |-> "NewGame", err |-> ""]
  /\ UNCHANGED <<cloneVars, aiVars>>

\* ChessService.NewGame
NewGame ==
  /\ game' = NewChessGame
  /\ resp' = [op |-> "NewGame", err |-> ""]
  /\ UNCHANGED <<cloneVars, aiVars>>

Next == PlayerMoveAccepted \/ PlayerMoveRejected \/ NewGame

Spec == Init /\ [][Next]_vars

\* ------------------------------------------------------------------------
\* A game and its clone
\* ------------------------------------------------------------------------
\* moves made on the clone and on the original after the copy, together
MaxCloneMoves == 2

\* the games copied: a pawn ending with White to move and an en-passant target,
\* and a rook ending with Black to move
ClonePositions == {Replay(PawnEndLine, 40), Replay(RookEndLine, 53)}

InitClone ==
  /\ game \in ClonePositions
  /\ resp = NoResp
  /\ clone = NoClone
  /\ aliased = {}
  /\ ai = NewAIService
  /\ call = NoCall
  /\ scan = NoScan

movesAfterCopy == (Len(clone.game.MoveHistory) - clone.base) + (Len(game.MoveHistory) - clone.base)

\* c := game.CopyState()
CopyGame ==
  /\ clone = NoClone
  /\ LET c == CopyState(game)
     IN clone' = [game |-> c.game, base |-> Len(game.MoveHistory)] /\ aliased' = c.aliased
  /\ resp' = [op |-> "CopyState", err |-> ""]
  /\ UNCHANGED <<game, aiVars>>

\* c.MakeMove(move), for a valid move of the clone
CloneMakeMove ==
  /\ clone # NoClone
  /\ movesAfterCopy < MaxCloneMoves
  /\ LET moves == GetValidMoves(clone.game, clone.game.CurrentTurn)
     IN \E k \in DOMAIN moves :
          LET moved == MakeMove(clone.game, moves[k])
          IN clone' = [clone EXCEPT !.game = moved] /\ game' = writeThrough(moved, game, aliased)
  /\ aliased' = aliased \ {"EnPassant"}
  /\ resp' = [op |-> "CloneMakeMove", err |-> ""]
  /\ UNCHANGED aiVars

\* game.MakeMove(move), for a valid move of the original, after the copy
OriginalMakeMove ==
  /\ clone # NoClone
  /\ movesAfterCopy < MaxCloneMoves
  /\ LET moves == GetValidMoves(game, game.CurrentTurn)
     IN \E k \in DOMAIN moves :
          LET moved == MakeMove(game, moves[k])
          IN game' = moved /\ clone' = [clone EXCEPT !.game = writeThrough(moved, clone.game, aliased)]
  /\ aliased' = aliased \ {"EnPassant"}
  /\ resp' = [op |-> "OriginalMakeMove", err |-> ""]
  /\ UNCHANGED aiVars

NextClone == CopyGame \/ CloneMakeMove \/ OriginalMakeMove

SpecClone == InitClone /\ [][NextClone]_vars

\* ------------------------------------------------------------------------
\* The search on a fixed game
\* ------------------------------------------------------------------------
\* the deepest search explored
MaxDepth == 3

\* f2f3 e7e5 g2g4 d8h4: White is mated
FoolsMateLine == <<<<6, 5, 5, 5>>, <<1, 4, 3, 4>>, <<6, 6, 4, 6>>, <<0, 3, 4, 7>>>>

\* the games searched: two of king and pawn against king with Black to move
\* and one with White to move, as Handlers.GetBestMoves hands it over, a game
\* Black has lost, a game drawn and a game Black has won
SearchPositions == {Replay(CornerLine, 52), Replay(CornerLine, 53), Replay(CornerLine, 57), Replay(MateLine, 7), Replay(StalemateLine, 53), Replay(FoolsMateLine, 4)}

\* the depths requested: the valid ones and two invalid ones
DepthRequests == 0..11

InitSearch ==
  /\ game \in SearchPositions
  /\ resp = NoResp
  /\ clone = NoClone
  /\ aliased = {}
  /\ ai = NewAIService
  /\ call = NoCall
  /\ scan = NoScan

\* AIService.SetDepth, while no search is running
SetDepthCall == \E d \in DepthRequests :
  /\ ai.pc = "idle"
  /\ call.pc = "idle"
  /\ LET out == SetDepth(ai.depth, d)
     IN ai' = [ai EXCEPT !.depth = out.depth] /\ resp' = [op |-> "SetDepth", err |-> out.err]
  /\ UNCHANGED <<game, cloneVars, call, scan>>

\* the levels requested: the eight names of the switch and three others
DifficultyRequests == {"easy", "Easy", "medium", "Medium", "hard", "Hard", "expert", "Expert", "EASY", "", "impossible"}

\* AIService.SetDifficulty, while no search is running
SetDifficultyCall == \E level \in DifficultyRequests :
  /\ ai.pc = "idle"
  /\ call.pc = "idle"
  /\ LET out == SetDifficulty(ai.depth, level)
     IN ai' = [ai EXCEPT !.depth = out.depth] /\ resp' = [op |-> "SetDifficulty", err |-> out.err]
  /\ UNCHANGED <<game, cloneVars, call, scan>>

\* AIService.GetDepth, while no search is running
GetDepthCall ==
  /\ ai.pc = "idle"
  /\ call.pc = "idle"
  /\ resp' = [op |-> "GetDepth", err |-> ""]
  /\ UNCHANGED <<game, cloneVars, aiVars>>

\* getBestMoveSync up to its loop: the moves are enumerated; explored for the
\* depths up to MaxDepth
SyncStart ==
  /\ ai.pc = "idle"
  /\ ai.depth <= MaxDepth
  /\ LET moves == GetValidMovesRun(game, game.CurrentTurn)
     IN /\ game' = moves.game
        /\ ai' = IF Len(moves.moves) = 0 THEN [ai EXCEPT !.pc = "returned", !.bestMove = NoMove]
                 ELSE [ai EXCEPT !.pc = "loop", !.moves = moves.moves, !.i = 1, !.bestMove = moves.moves[1], !.bestValue = 0 - INFINITY]
  /\ resp' = [op |-> "getBestMoveSync", err |-> ""]
  /\ UNCHANGED <<cloneVars, call, scan>>

\* a candidate of equal value replaces the best move
TryMove_lastWins ==
  /\ ai.pc = "loop"
  /\ ai.i <= Len(ai.moves)
  /\ LET value == candidateValue(game, ai.depth, ai.moves[ai.i])
     IN ai' = IF value >= ai.bestValue THEN [ai EXCEPT !.i = @ + 1, !.bestValue = value, !.bestMove = ai.moves[ai.i]]
              ELSE [ai EXCEPT !.i = @ + 1]
  /\ UNCHANGED <<game, resp, cloneVars, call, scan>>

\* one pass of the loop of getBestMoveSync
TryMove ==
  /\ ai.pc = "loop"
  /\ ai.i <= Len(ai.moves)
  /\ LET value == candidateValue(game, ai.depth, ai.moves[ai.i])
     IN ai' = IF value > ai.bestValue THEN [ai EXCEPT !.i = @ + 1, !.bestValue = value, !.bestMove = ai.moves[ai.i]]
              ELSE [ai EXCEPT !.i = @ + 1]
  /\ UNCHANGED <<game, resp, cloneVars, call, scan>>

\* the loop is over: getBestMoveSync returns &bestMove
SyncReturn ==
  /\ ai.pc = "loop"
  /\ ai.i > Len(ai.moves)
  /\ ai' = [ai EXCEPT !.pc = "returned"]
  /\ UNCHANGED <<game, resp, cloneVars, call, scan>>

NextSearch == SetDepthCall \/ SetDifficultyCall \/ GetDepthCall \/ SyncStart \/ TryMove \/ SyncReturn

SpecSearch == InitSearch /\ [][NextSearch]_vars

\* a pass of the loop of getBestMoveSync is left to take
TryMoveReady == ai.pc = "loop" /\ ai.i <= Len(ai.moves)

\* getBestMoveSync runs on: weak fairness of its steps, the enabling condition
\* of TryMove written out as TryMoveReady
SpecSearchFair ==
  /\ InitSearch
  /\ [][NextSearch]_vars
  /\ WF_vars(SyncReturn)
  /\ ([]<>~TryMoveReady \/ []<><<TryMove>>_vars)

\* ------------------------------------------------------------------------
\* GetBestMove: the caller, the search worker and the deadline
\* ------------------------------------------------------------------------
\* the deepest search explored under a deadline
MaxCallDepth == 1

\* the games handed to GetBestMove: two of king and pawn against king with
\* Black to move, and a game that is over
BestPositions == {Replay(CornerLine, 53), Replay(CornerLine, 57), Replay(MateLine, 7)}

TimeoutError == "AI thinking timeout, returning first valid move"

InitBest ==
  /\ game \in BestPositions
  /\ resp = NoResp
  /\ clone = NoClone
  /\ aliased = {}
  /\ ai = NewAIService
  /\ call = NoCall
  /\ scan = NoScan

\* the pairs of the four nested loops of GetValidMoves that reach the
\* self-check test of IsValidMove
candidates(g, color) == {k \in 1..4096 : g.Board[AllMoves[k].From.Row][AllMoves[k].From.Col] # Nil /\ g.Board[AllMoves[k].From.Row][AllMoves[k].From.Col].Color = color /\ passesPatternChecks(g, AllMoves[k])}

\* the first such pair after the k-th, 0 if the loops end without one
nextCandidate(g, color, k) ==
  LET later == {c \in candidates(g, color) : c > k}
  IN IF later = {} THEN 0 ELSE CHOOSE c \in later : \A d \in later : c <= d

\* wouldLeaveKingInCheck up to its test: the two cells are written
enumPlace(g, sc, k) ==
  [game |-> placeMove(g, AllMoves[k]),
   scan |-> [sc EXCEPT !.k = k, !.placed = TRUE, !.originalPiece = g.Board[AllMoves[k].To.Row][AllMoves[k].To.Col], !.movingPiece = g.Board[AllMoves[k].From.Row][AllMoves[k].From.Col]]]

\* wouldLeaveKingInCheck from its test on: the test, the two cells written
\* back, and the append of GetValidMoves if IsValidMove returns true
enumRestore(g, sc) ==
  [game |-> restoreMove(g, AllMoves[sc.k], sc.originalPiece, sc.movingPiece),
   scan |-> [sc EXCEPT !.placed = FALSE, !.originalPiece = Nil, !.movingPiece = Nil, !.validMoves = IF IsInCheck(g, g.CurrentTurn) THEN @ ELSE Append(@, AllMoves[sc.k])]]

\* the test of GameOver is left out
GetBestMoveCall_ignoresGameOver ==
  /\ call.pc = "idle"
  /\ ai.pc = "idle"
  /\ ai.depth <= MaxCallDepth
  /\ call' = [call EXCEPT !.pc = "enum", !.entry = game]
  /\ resp' = [op |-> "GetBestMove", err |-> ""]
  /\ UNCHANGED <<game, cloneVars, ai, scan>>

\* AIService.GetBestMove is called with the service's game
GetBestMoveCall ==
  /\ call.pc = "idle"
  /\ ai.pc = "idle"
  /\ ai.depth <= MaxCallDepth
  /\ call' = IF game.GameOver THEN [call EXCEPT !.pc = "returned", !.entry = game, !.ret = [move |-> NoMove, err |-> "game is over"]]
             ELSE [call EXCEPT !.pc = "enum", !.entry = game]
  /\ resp' = [op |-> "GetBestMove", err |-> ""]
  /\ UNCHANGED <<game, cloneVars, ai, scan>>

\* the caller's game.GetValidMoves, one step of a self-check test at a time
MainEnumPlace ==
  /\ call.pc = "enum"
  /\ ~scan.placed
  /\ nextCandidate(game, game.CurrentTurn, scan.k) # 0
  /\ LET out == enumPlace(game, scan, nextCandidate(game, game.CurrentTurn, scan.k))
     IN game' = out.game /\ scan' = out.scan
  /\ UNCHANGED <<resp, cloneVars, ai, call>>

MainEnumRestore ==
  /\ call.pc = "enum"
  /\ scan.placed
  /\ LET out == enumRestore(game, scan)
     IN game' = out.game /\ scan' = out.scan
  /\ UNCHANGED <<resp, cloneVars, ai, call>>

\* the caller's enumeration is over: no move is an error, otherwise the
\* context and the channel are made and the worker is started
MainEnumEnd ==
  /\ call.pc = "enum"
  /\ ~scan.placed
  /\ nextCandidate(game, game.CurrentTurn, scan.k) = 0
  /\ IF Len(scan.validMoves) = 0
     THEN call' = [call EXCEPT !.pc = "returned", !.ret = [move |-> NoMove, err |-> "no valid moves available"]] /\ ai' = ai
     ELSE call' = [call EXCEPT !.pc = "spawned", !.moves = scan.validMoves] /\ ai' = [ai EXCEPT !.pc = "enum"]
  /\ scan' = NoScan
  /\ UNCHANGED <<game, resp, cloneVars>>

\* the worker's game.GetValidMoves in getBestMoveSync, on the same game
WorkerEnumPlace ==
  /\ ai.pc = "enum"
  /\ ~scan.placed
  /\ nextCandidate(game, game.CurrentTurn, scan.k) # 0
  /\ LET out == enumPlace(game, scan, nextCandidate(game, game.CurrentTurn, scan.k))
     IN game' = out.game /\ scan' = out.scan
  /\ UNCHANGED <<resp, cloneVars, ai, call>>

WorkerEnumRestore ==
  /\ ai.pc = "enum"
  /\ scan.placed
  /\ LET out == enumRestore(game, scan)
     IN game' = out.game /\ scan' = out.scan
  /\ UNCHANGED <<resp, cloneVars, ai, call>>

\* the worker's enumeration is over: getBestMoveSync returns nil or enters
\* its loop
WorkerEnumEnd ==
  /\ ai.pc = "enum"
  /\ ~scan.placed
  /\ nextCandidate(game, game.CurrentTurn, scan.k) = 0
  /\ ai' = IF Len(scan.validMoves) = 0 THEN [ai EXCEPT !.pc = "returned", !.bestMove = NoMove]
           ELSE [ai EXCEPT !.pc = "loop", !.moves = scan.validMoves, !.i = 1, !.bestMove = scan.validMoves[1], !.bestValue = 0 - INFINITY]
  /\ scan' = NoScan
  /\ UNCHANGED <<game, resp, cloneVars, call>>

\* the send on resultChan can proceed: the channel is made and its buffer of
\* one is free, the worker being its only sender
WorkerSendReady == ai.pc = "returned" /\ call.pc # "idle"

\* the worker's send on resultChan: handed to the caller if it is parked in
\* the select, buffered otherwise
WorkerSend ==
  /\ WorkerSendReady
  /\ ai' = [ai EXCEPT !.pc = "sent"]
  /\ call' = IF call.pc = "waiting" THEN [call EXCEPT !.pc = "returned", !.ret = [move |-> ai.bestMove, err |-> ""], !.events = Append(@, "delivered")]
             ELSE [call EXCEPT !.resultChan = <<ai.bestMove>>, !.events = Append(@, "delivered")]
  /\ UNCHANGED <<game, resp, cloneVars, scan>>

\* the context is done, by the 30 s timer or by the caller's context: a caller
\* parked in the select takes the timeout case
Deadline ==
  /\ call.pc \in {"enum", "spawned", "waiting"}
  /\ ~call.ctxDone
  /\ call' = IF call.pc = "waiting" THEN [call EXCEPT !.pc = "returned", !.ctxDone = TRUE, !.ret = [move |-> call.moves[1], err |-> TimeoutError], !.events = Append(@, "deadline")]
             ELSE [call EXCEPT !.ctxDone = TRUE, !.events = Append(@, "deadline")]
  /\ UNCHANGED <<game, resp, cloneVars, ai, scan>>

\* the caller reaches the select and takes the case of resultChan
MainSelectResult ==
  /\ call.pc = "spawned"
  /\ call.resultChan # << >>
  /\ call' = [call EXCEPT !.pc = "returned", !.resultChan = << >>, !.ret = [move |-> call.resultChan[1], err |-> ""]]
  /\ UNCHANGED <<game, resp, cloneVars, ai, scan>>

\* the caller reaches the select and takes the case of ctx.Done()
MainSelectDeadline ==
  /\ call.pc = "spawned"
  /\ call.ctxDone
  /\ call' = [call EXCEPT !.pc = "returned", !.ret = [move |-> call.moves[1], err |-> TimeoutError]]
  /\ UNCHANGED <<game, resp, cloneVars, ai, scan>>

\* the caller reaches the select with no case ready and parks
MainSelectWait ==
  /\ call.pc = "spawned"
  /\ call.resultChan = << >>
  /\ ~call.ctxDone
  /\ call' = [call EXCEPT !.pc = "waiting"]
  /\ UNCHANGED <<game, resp, cloneVars, ai, scan>>

\* the test of GameOver is left to GetBestMove
MakeAIMoveCall_ignoresGameOver ==
  /\ call.pc = "idle"
  /\ ai.pc = "idle"
  /\ ai.depth <= MaxCallDepth
  /\ resp' = [op |-> "MakeAIMove", err |-> ""]
  /\ call' = IF game.GameOver THEN [call EXCEPT !.pc = "returned", !.entry = game, !.ret = [move |-> NoMove, err |-> "game is over"]]
             ELSE [call EXCEPT !.pc = "enum", !.entry = game]
  /\ UNCHANGED <<game, cloneVars, ai, scan>>

\* AIService.MakeAIMove on the service's game, up to its call of GetBestMove:
\* a game that is over is an error before any call
MakeAIMoveCall ==
  /\ call.pc = "idle"
  /\ ai.pc = "idle"
  /\ ai.depth <= MaxCallDepth
  /\ resp' = [op |-> "MakeAIMove", err |-> IF game.GameOver THEN "game is over" ELSE ""]
  /\ call' = IF game.GameOver THEN call ELSE [call EXCEPT !.pc = "enum", !.entry = game]
  /\ UNCHANGED <<game, cloneVars, ai, scan>>

\* MakeAIMove from the return of GetBestMove on: an error or a nil move is
\* returned as an error with no move made, any other move is handed to
\* game.MakeMove
MakeAIMoveReturn ==
  /\ call.pc = "returned"
  /\ resp.op = "MakeAIMove"
  /\ call' = [call EXCEPT !.pc = "done"]
  /\ IF call.ret.err # "" THEN resp' = [resp EXCEPT !.err = "failed to get AI move: " \o call.ret.err] /\ game' = game
     ELSE IF call.ret.move = NoMove THEN resp' = [resp EXCEPT !.err = "no valid AI moves available"] /\ game' = game
     ELSE resp' = resp /\ game' = MakeMove(game, call.ret.move)
  /\ UNCHANGED <<cloneVars, ai, scan>>

\* a player request that the rules reject, served while no call is in progress
PlayerMoveRejectedIdle ==
  /\ call.pc = "idle"
  /\ ai.pc = "idle"
  /\ PlayerMoveRejected

NextBest ==
  \/ SetDepthCall \/ GetBestMoveCall \/ MakeAIMoveCall \/ MakeAIMoveReturn \/ PlayerMoveRejectedIdle
  \/ MainEnumPlace \/ MainEnumRestore \/ MainEnumEnd
  \/ WorkerEnumPlace \/ WorkerEnumRestore \/ WorkerEnumEnd
  \/ TryMove \/ SyncReturn \/ WorkerSend
  \/ Deadline \/ MainSelectResult \/ MainSelectDeadline \/ MainSelectWait

SpecBest == InitBest /\ [][NextBest]_vars

\* the steps of the goroutine up to the end of its search
WorkerSearch == WorkerEnumPlace \/ WorkerEnumRestore \/ WorkerEnumEnd \/ TryMove

\* the goroutine has a step of its search to take: it is enumerating, or a
\* pass of its loop is left
WorkerSearching == ai.pc = "enum" \/ (ai.pc = "loop" /\ ai.i <= Len(ai.moves))

\* the fair runs start from king and pawn against king with Black to move
InitBestFair ==
  /\ game = Replay(CornerLine, 53)
  /\ resp = NoResp
  /\ clone = NoClone
  /\ aliased = {}
  /\ ai = NewAIService
  /\ call = NoCall
  /\ scan = NoScan

\* the scheduler runs a goroutine that has a step to take: weak fairness of
\* each step of the worker, the enabling condition of the steps of its search
\* written out as WorkerSearching
SpecBestFair ==
  /\ InitBestFair
  /\ [][NextBest]_vars
  /\ WF_vars(SyncReturn)
  /\ WF_vars(WorkerSend)
  /\ ([]<>~WorkerSearching \/ []<><<WorkerSearch>>_vars)

\* ------------------------------------------------------------------------
\* The move handler: a player move answered by the automated move
\* ------------------------------------------------------------------------
HandlerOp == "Handlers.MakeMove"

\* the games the handler is explored on: White to move with its king against
\* king and pawn, and a game that is over
HandlerPositions == {Replay(CornerLine, 52), Replay(MateLine, 7)}

\* the length of history from which no further request is explored
MaxPlies == 54

\* the requests explored on a game of fewer than MaxPlies moves: the mated
\* king's capture of the queen, a request off the board, and the next move of
\* CornerLine if the game has followed it
HandlerRequests(g) ==
  LET h == g.MoveHistory
      next == CornerLine[Len(h) + 1]
  IN IF Len(h) >= MaxPlies THEN {}
     ELSE {<<Position(0, 4), Position(1, 5)>>, <<Position(7, 7), Position(8, 7)>>}
            \cup (IF Len(h) < Len(CornerLine) /\ isPrefix(CornerLine, h, Len(h)) THEN {<<Position(next[1], next[2]), Position(next[3], next[4])>>} ELSE {})

InitHandler ==
  /\ game \in HandlerPositions
  /\ resp = NoResp
  /\ clone = NoClone
  /\ aliased = {}
  /\ ai = NewAIService
  /\ call = NoCall
  /\ scan = NoScan

\* Handlers.MakeMove up to the call of GetBestMove inside MakeAIMove: the
\* bounds test, MakePlayerMove, the test of the game being over and the test
\* of the turn. A request is taken when no other is being served and no
\* worker is running.
HandlersMakeMove == \E req \in HandlerRequests(game) :
  /\ call.pc \in {"idle", "done"}
  /\ ai.pc \in {"idle", "sent"}
  /\ ai.depth <= MaxCallDepth
  /\ LET out == IF ~inBounds(req[1]) \/ ~inBounds(req[2]) THEN [game |-> game, err |-> "Move coordinates out of bounds"]
                ELSE MakePlayerMove(game, req[1], req[2])
         thinking == out.err = "" /\ ~out.game.GameOver /\ out.game.CurrentTurn = Black
     IN /\ game' = out.game
        /\ resp' = [op |-> HandlerOp, err |-> out.err]
        /\ call' = IF thinking THEN [NoCall EXCEPT !.pc = "enum", !.entry = out.game] ELSE NoCall
  /\ ai' = [NewAIService EXCEPT !.depth = ai.depth]
  /\ scan' = NoScan
  /\ UNCHANGED cloneVars

\* Handlers.MakeMove from the return of GetBestMove on: MakeAIMove applies a
\* move returned with no error; on an error the handler logs it and answers
\* with the state after the player's move
\* MakeMove has no test of its own: on an empty source cell it reads a field
\* of a nil piece before any write, and the request ends in a panic
HandlersMakeMoveReturn ==
  /\ call.pc = "returned"
  /\ resp.op = HandlerOp
  /\ call' = [call EXCEPT !.pc = "done"]
  /\ IF call.ret.err # "" \/ call.ret.move = NoMove THEN game' = game /\ resp' = resp
     ELSE IF game.Board[call.ret.move.From.Row][call.ret.move.From.Col] = Nil THEN game' = game /\ resp' = [resp EXCEPT !.err = "panic: nil pointer dereference"]
     ELSE game' = MakeMove(game, call.ret.move) /\ resp' = resp
  /\ UNCHANGED <<cloneVars, ai, scan>>

\* a second request to Handlers.MakeMove served while the first is inside
\* MakeAIMove: the handlers take no lock. Explored are the requests that
\* MakePlayerMove accepts, served once the worker's search has ended and
\* before the first handler calls MakeMove; the side to move is then White
\* and the second handler answers without an automated move.
HandlersMakeMoveConcurrent == \E req \in HandlerRequests(game) :
  /\ call.pc \in {"waiting", "returned"}
  /\ ai.pc \in {"returned", "sent"}
  /\ resp.op = HandlerOp
  /\ inBounds(req[1]) /\ inBounds(req[2])
  /\ IsValidMove(game, Move(req[1], req[2]))
  /\ game' = MakePlayerMove(game, req[1], req[2]).game
  /\ UNCHANGED <<resp, cloneVars, aiVars>>

NextHandler ==
  \/ SetDepthCall \/ HandlersMakeMove \/ HandlersMakeMoveReturn \/ HandlersMakeMoveConcurrent
  \/ MainEnumPlace \/ MainEnumRestore \/ MainEnumEnd
  \/ WorkerEnumPlace \/ WorkerEnumRestore \/ WorkerEnumEnd
  \/ TryMove \/ SyncReturn \/ WorkerSend
  \/ Deadline \/ MainSelectResult \/ MainSelectDeadline \/ MainSelectWait

SpecHandler == InitHandler /\ [][NextHandler]_vars

\* ------------------------------------------------------------------------
\* Claims
\* ------------------------------------------------------------------------
\* C1: in every reachable state, no move of GetValidMoves(CurrentTurn) leaves
\* the mover's own king in check on the board that MakeMove produces.
C1_SelfCheckInvariant == LET moves == GetValidMoves(game, game.CurrentTurn) IN \A k \in DOMAIN moves : ~IsInCheck(applyMove(game, moves[k]), game.CurrentTurn)

\* C2: GameOver holds exactly when the side to move has no valid move; the
\* winner is then the opponent if the side to move is in check and "draw"
\* otherwise, and there is no winner while the game is on.
C2_TerminalClassification ==
  /\ game.GameOver <=> Len(GetValidMoves(game, game.CurrentTurn)) = 0
  /\ game.GameOver => game.Winner = (IF IsInCheck(game, game.CurrentTurn) THEN opponentColor(game.CurrentTurn) ELSE "draw")
  /\ ~game.GameOver => game.Winner = ""

C2_Witness == game.GameOver /\ game.Winner = White /\ IsInCheck(game, Black)

\* C3: every request that IsValidMove rejects makes MakePlayerMove return an
\* error and leave the whole game as it was.
C3_FailsClosed == \A from \in RequestPositions, to \in RequestPositions : ~IsValidMove(game, Move(from, to)) => (MakePlayerMove(game, from, to).err # "" /\ MakePlayerMove(game, from, to).game = game)

C3_Witness == resp.op = "MakePlayerMove" /\ resp.err # "" /\ \E from \in Squares, to \in Squares : passesPatternChecks(game, Move(from, to)) /\ ~IsValidMove(game, Move(from, to)) /\ game.Board[to.Row][to.Col] # Nil

\* C4: a MakeMove on a clone made by CopyState changes no field of the game
\* it was copied from, and a MakeMove on that game after the copy changes no
\* field of the clone.
C4_CloneIndependence == [][(resp'.op = "CloneMakeMove" => game' = game) /\ (resp'.op = "OriginalMakeMove" => clone'.game = clone.game)]_vars

C4_Witness == resp.op = "CloneMakeMove" /\ clone.game.RookMoved[Black][0] /\ ~game.RookMoved[Black][0] /\ Len(clone.game.MoveHistory) = clone.base + 2

\* minimax of the same depth over the same tree with no window and no cut-off
RECURSIVE plainMinimax(_, _, _)
plainMinimax(g, depth, isMaximizing) ==
  IF depth = 0 THEN evaluatePosition(g)
  ELSE IF g.GameOver
       THEN IF g.Winner = Black THEN WIN_SCORE + depth ELSE IF g.Winner = White THEN 0 - WIN_SCORE - depth ELSE 0
       ELSE LET moves == GetValidMoves(g, IF isMaximizing THEN Black ELSE White)
                evals == {plainMinimax(MakeMove(CopyState(g).game, moves[k]), depth - 1, ~isMaximizing) : k \in DOMAIN moves} \cup {IF isMaximizing THEN 0 - INFINITY ELSE INFINITY}
            IN IF isMaximizing THEN CHOOSE v \in evals : \A w \in evals : v >= w
               ELSE CHOOSE v \in evals : \A w \in evals : v <= w

\* C5: when getBestMoveSync returns a move on a game with Black to move, the
\* plain minimax value of that move, and the value the search found for it,
\* is the greatest plain minimax value of all the candidate moves.
C5_AlphaBetaEquivalence ==
  (ai.pc = "returned" /\ game.CurrentTurn = Black /\ Len(ai.moves) > 0) =>
    LET plain == {<<k, plainMinimax(MakeMove(CopyState(game).game, ai.moves[k]), ai.depth - 1, FALSE)>> : k \in DOMAIN ai.moves}
        best == CHOOSE p \in plain : \A q \in plain : p[2] >= q[2]
    IN ai.bestValue = best[2] /\ \E p \in plain : ai.moves[p[1]] = ai.bestMove /\ p[2] = best[2]

C5_Witness == ai.pc = "returned" /\ ai.depth = 3 /\ game.CurrentTurn = Black /\ Len(ai.moves) > 1 /\ ai.bestMove # ai.moves[1]

\* C6: when GetBestMove returns after the deadline fired or the worker
\* delivered, it returns the first move of the enumeration made on entry with
\* the timeout error if the deadline fired first, and the worker's move with no
\* error if the worker delivered first.
C6_TimeoutFallback ==
  (call.pc = "returned" /\ call.events # << >>) =>
    /\ call.events[1] = "deadline" => call.ret = [move |-> call.moves[1], err |-> TimeoutError]
    /\ call.events[1] = "delivered" => call.ret = [move |-> ai.bestMove, err |-> ""]

\* C7: from the call of GetBestMove until the worker has finished, the game
\* handed to it is in every field what it was at the call.
C7_SearchReadOnly == (call.pc # "idle" /\ ai.pc # "sent") => game = call.entry

C9_PawnDoubleStep == \A from \in Squares, to \in Squares : (game.Board[from.Row][from.Col].Type = Pawn /\ abs(to.Row - from.Row) = 2 /\ IsValidMove(game, Move(from, to))) => (from.Row = (IF game.Board[from.Row][from.Col].Color = White THEN 6 ELSE 1) /\ game.Board[(from.Row + to.Row) \div 2][from.Col] = Nil /\ game.Board[to.Row][to.Col] = Nil)

\* C10: a newly constructed game has White to move, exactly 20 valid moves for
\* White (8 single and 8 double pawn advances, 4 knight moves), neither side in
\* check, GameOver false, no history and no en-passant target.
C10_StartingPosition ==
  game.MoveHistory = << >> =>
    LET moves == GetValidMoves(game, White)
        ofKind(type, rows) == {k \in DOMAIN moves : game.Board[moves[k].From.Row][moves[k].From.Col].Type = type /\ abs(moves[k].To.Row - moves[k].From.Row) = rows}
    IN /\ game.CurrentTurn = White
       /\ Len(moves) = 20
       /\ Cardinality(ofKind(Pawn, 1)) = 8
       /\ Cardinality(ofKind(Pawn, 2)) = 8
       /\ Cardinality({k \in DOMAIN moves : game.Board[moves[k].From.Row][moves[k].From.Col].Type = Knight}) = 4
       /\ ~IsInCheck(game, White) /\ ~IsInCheck(game, Black)
       /\ ~game.GameOver
       /\ game.EnPassant = NilPos

C10_Witness == game = NewChessGame /\ resp.op = "NewGame"

\* C11: when the last move was a pawn's advance of two rows and an enemy pawn
\* stands beside the advanced pawn on its row, that pawn's diagonal move onto
\* the skipped square is accepted by IsValidMove, and MakeMove puts the
\* capturing pawn on the skipped square, empties the advanced pawn's square
\* and records the move with IsEnPassant.
C11_EnPassantCapture ==
  LET h == game.MoveHistory
      last == h[Len(h)]
  IN (Len(h) > 0 /\ last.Piece.Type = Pawn /\ abs(last.To.Row - last.From.Row) = 2) =>
       \A col \in {last.To.Col - 1, last.To.Col + 1} \cap Rows :
         (game.Board[last.To.Row][col] = Piece(Pawn, opponentColor(last.Piece.Color))) =>
           LET skipped == Position((last.From.Row + last.To.Row) \div 2, last.To.Col)
               move == Move(Position(last.To.Row, col), skipped)
               after == MakeMove(game, move)
           IN /\ IsValidMove(game, move)
              /\ after.Board[skipped.Row][skipped.Col] = Piece(Pawn, opponentColor(last.Piece.Color))
              /\ after.Board[last.To.Row][last.To.Col] = Nil
              /\ after.MoveHistory[Len(after.MoveHistory)].IsEnPassant

\* C12: the line 1.e4 e5 2.Qh5 Nc6 3.Bc4 Nf6 4.Qxf7 played from the starting
\* position has every move accepted by IsValidMove, and the state after its
\* last move has GameOver true, Winner White and Black in check.
C12_ForcedMate ==
  \A n \in 0..Len(MateLine) :
    (Len(game.MoveHistory) = n /\ isPrefix(MateLine, game.MoveHistory, n)) =>
      IF n < Len(MateLine)
      THEN IsValidMove(game, Move(Position(MateLine[n + 1][1], MateLine[n + 1][2]), Position(MateLine[n + 1][3], MateLine[n + 1][4])))
      ELSE game.GameOver /\ game.Winner = White /\ IsInCheck(game, Black)

C12_Witness == Len(game.MoveHistory) = Len(MateLine) /\ isPrefix(MateLine, game.MoveHistory, Len(MateLine)) /\ resp = [op |-> "MakePlayerMove", err |-> ""]

\* C13: SetDepth with a depth below 1 or above 10 and SetDifficulty with a
\* name it does not know return an error and leave the depth as it was, and
\* the depth of the service is always within 1..10.
C13_ConfigErrors ==
  /\ \A d \in DepthRequests \ (1..10) : SetDepth(ai.depth, d).err # "" /\ SetDepth(ai.depth, d).depth = ai.depth
  /\ \A level \in DifficultyRequests \ {"easy", "Easy", "medium", "Medium", "hard", "Hard", "expert", "Expert"} : SetDifficulty(ai.depth, level).err # "" /\ SetDifficulty(ai.depth, level).depth = ai.depth
  /\ ai.depth \in 1..10

C13_Witness == resp.op = "SetDepth" /\ resp.err # "" /\ ai.depth = 6

\* C14: SetDifficulty leaves the depth at 2 for easy, 4 for medium, 6 for hard
\* and 8 for expert, SetDepth(n) leaves it at n for every n in 1..10, both
\* without error, and GetDepth returns the depth the service was left with.
C14_DifficultyMapping ==
  /\ \A level \in {"easy", "Easy"} : SetDifficulty(ai.depth, level) = [depth |-> 2, err |-> ""]
  /\ \A level \in {"medium", "Medium"} : SetDifficulty(ai.depth, level) = [depth |-> 4, err |-> ""]
  /\ \A level \in {"hard", "Hard"} : SetDifficulty(ai.depth, level) = [depth |-> 6, err |-> ""]
  /\ \A level \in {"expert", "Expert"} : SetDifficulty(ai.depth, level) = [depth |-> 8, err |-> ""]
  /\ \A n \in 1..10 : SetDepth(ai.depth, n) = [depth |-> n, err |-> ""] /\ GetDepth([ai EXCEPT !.depth = SetDepth(ai.depth, n).depth]) = n
  /\ resp = [op |-> "SetDifficulty", err |-> ""] => GetDepth(ai) \in {2, 4, 6, 8}

C14_Witness == resp = [op |-> "SetDifficulty", err |-> ""] /\ GetDepth(ai) = 8

\* C15: a call of GetBestMove on a game that is over returns the error
\* "game is over" and no move, and a call on a game whose side to move has no
\* valid move returns an error and no move; in both cases the worker is never
\* started and the game is left as it was.
C15_NoMoveToFind ==
  /\ (call.pc # "idle" /\ call.entry.GameOver) =>
       (call.pc = "returned" /\ call.ret = [move |-> NoMove, err |-> "game is over"] /\ ai.pc = "idle" /\ game = call.entry)
  /\ (call.pc \notin {"idle", "enum"} /\ Len(GetValidMoves(call.entry, call.entry.CurrentTurn)) = 0) =>
       (call.pc = "returned" /\ call.ret.move = NoMove /\ call.ret.err \in {"game is over", "no valid moves available"} /\ ai.pc = "idle" /\ game = call.entry)

C15_Witness == call.pc = "returned" /\ call.entry.GameOver /\ Len(GetValidMoves(call.entry, call.entry.CurrentTurn)) = 0 /\ call.ret.err = "game is over" /\ resp.op = "GetBestMove"

\* C16: the move getBestMoveSync returns is the earliest, in the order of the
\* enumeration, of the candidates whose minimax score is the greatest.
C16_FirstWins ==
  (ai.pc = "returned" /\ Len(ai.moves) > 0) =>
    LET score == {<<k, candidateValue(game, ai.depth, ai.moves[k])>> : k \in DOMAIN ai.moves}
        top == {p[1] : p \in {p \in score : \A q \in score : p[2] >= q[2]}}
    IN ai.bestMove = ai.moves[CHOOSE k \in top : \A j \in top : k <= j]

C16_Witness ==
  /\ ai.pc = "returned" /\ Len(ai.moves) > 1
  /\ LET score == {<<k, candidateValue(game, ai.depth, ai.moves[k])>> : k \in DOMAIN ai.moves}
         top == {p[1] : p \in {p \in score : \A q \in score : p[2] >= q[2]}}
     IN Cardinality(top) > 1 /\ ai.bestMove = ai.moves[CHOOSE k \in top : \A j \in top : k <= j]

\* C17: when GetBestMove returns the timeout error to MakeAIMove, MakeAIMove
\* returns no error and has applied the fallback move, the first move of the
\* enumeration: the history is one entry longer, its last entry is that move
\* and White is to move.
C17_TimeoutNotFatal ==
  (resp.op = "MakeAIMove" /\ call.pc = "done" /\ call.ret.err = TimeoutError) =>
    /\ resp.err = ""
    /\ Len(game.MoveHistory) = Len(call.entry.MoveHistory) + 1
    /\ game.MoveHistory[Len(game.MoveHistory)].From = call.moves[1].From
    /\ game.MoveHistory[Len(game.MoveHistory)].To = call.moves[1].To
    /\ game.CurrentTurn = White

\* C18: in every reachable state EnPassant is set if and only if the last move
\* applied was a pawn moving two rows, and is then the square midway between
\* its source and destination in its column; with no move applied it is nil.
\* A pawn's diagonal move onto an empty square is valid only onto that
\* square, so only on the move that follows the double step.
C18_EnPassantLifecycle ==
  LET h == game.MoveHistory
      last == h[Len(h)]
      doubleStep == Len(h) > 0 /\ last.Piece.Type = Pawn /\ abs(last.To.Row - last.From.Row) = 2
  IN /\ (game.EnPassant # NilPos) <=> doubleStep
     /\ doubleStep => game.EnPassant = Position((last.From.Row + last.To.Row) \div 2, last.From.Col)
     /\ \A from \in {sq \in Squares : game.Board[sq.Row][sq.Col].Type = Pawn} :
          \A to \in {sq \in Squares : abs(sq.Row - from.Row) = 1 /\ abs(sq.Col - from.Col) = 1 /\ game.Board[sq.Row][sq.Col] = Nil} :
            IsValidMove(game, Move(from, to)) => (doubleStep /\ to = Position((last.From.Row + last.To.Row) \div 2, last.From.Col))

C18_Witness ==
  /\ Len(game.MoveHistory) > 1
  /\ game.EnPassant # NilPos
  /\ game.Board[game.EnPassant.Row][game.EnPassant.Col] = Nil
  /\ \E from \in Squares : game.Board[from.Row][from.Col] = Piece(Pawn, game.CurrentTurn) /\ IsValidMove(game, Move(from, game.EnPassant))

\* C19: every applied move lowers the number of pieces on the board by 0 or
\* 1, removes no piece of the mover's colour, and removes a piece from a square
\* other than its destination only when the destination was empty.
C19_OnePieceRemoved ==
  [][Len(game'.MoveHistory) = Len(game.MoveHistory) + 1 =>
       LET m == game'.MoveHistory[Len(game'.MoveHistory)]
           before == {sq \in Squares : game.Board[sq.Row][sq.Col] # Nil}
           after == {sq \in Squares : game'.Board[sq.Row][sq.Col] # Nil}
           removed == {sq \in before \ {m.From} : sq = m.To \/ sq \notin after}
       IN /\ Cardinality(after) \in {Cardinality(before), Cardinality(before) - 1}
          /\ \A sq \in removed : game.Board[sq.Row][sq.Col].Color # m.Piece.Color
          /\ \A sq \in removed : sq # m.To => game.Board[m.To.Row][m.To.Col] = Nil]_vars

\* C20: in every reachable state where EnPassant is set, its cell is empty, it
\* lies on row 2 or row 5, and the cell beyond it, on row 3 or row 4 of the
\* same column, holds the pawn of the side that has just moved.
C20_EnPassantTargetEmpty ==
  game.EnPassant # NilPos =>
    /\ game.Board[game.EnPassant.Row][game.EnPassant.Col] = Nil
    /\ game.EnPassant.Row \in {2, 5}
    /\ game.Board[IF game.EnPassant.Row = 2 THEN 3 ELSE 4][game.EnPassant.Col] = Piece(Pawn, opponentColor(game.CurrentTurn))

\* C21: in every reachable state the board holds exactly one White king and
\* exactly one Black king, and no move of the history captured a king.
C21_KingsNeverCaptured ==
  /\ Cardinality({sq \in Squares : game.Board[sq.Row][sq.Col] = Piece(King, White)}) = 1
  /\ Cardinality({sq \in Squares : game.Board[sq.Row][sq.Col] = Piece(King, Black)}) = 1
  /\ \A k \in DOMAIN game.MoveHistory : game.MoveHistory[k].CapturedPiece.Type # King

\* C22: in every reachable state, every move of a piece of the side to move
\* that passes the pattern checks and whose application by MakeMove leaves
\* the mover's king unattacked is a move of GetValidMoves(CurrentTurn).
C22_LegalMoveCompleteness ==
  LET moves == GetValidMoves(game, game.CurrentTurn)
  IN \A k \in candidates(game, game.CurrentTurn) :
       ~IsInCheck(applyMove(game, AllMoves[k]), game.CurrentTurn) => \E n \in DOMAIN moves : moves[n] = AllMoves[k]

\* C23: every accepted move appends exactly one entry to MoveHistory, leaves
\* the earlier entries as they were and flips CurrentTurn; in every reachable
\* state CurrentTurn is White exactly when the length of the history is even.
C23_TurnAlternation ==
  /\ [](game.CurrentTurn = White <=> Len(game.MoveHistory) % 2 = 0)
  /\ [][(resp'.op = "MakePlayerMove" /\ resp'.err = "") =>
          /\ Len(game'.MoveHistory) = Len(game.MoveHistory) + 1
          /\ SubSeq(game'.MoveHistory, 1, Len(game.MoveHistory)) = game.MoveHistory
          /\ game'.CurrentTurn = opponentColor(game.CurrentTurn)]_vars

C23_Witness == Len(game.MoveHistory) = 3 /\ game.CurrentTurn = Black /\ resp = [op |-> "MakePlayerMove", err |-> ""]

\* C24: once GameOver is true, no request is a valid move, every step leaves
\* the game as it is, a player move is answered with an error, and MakeAIMove
\* and GetBestMove return the error "game is over".
C24_GameOverAbsorbing ==
  /\ [](game.GameOver => \A k \in DOMAIN AllMoves : ~IsValidMove(game, AllMoves[k]))
  /\ [][game.GameOver =>
          /\ game' = game
          /\ resp'.op = "MakePlayerMove" => resp'.err # ""
          /\ resp'.op = "MakeAIMove" => (resp'.err = "game is over" /\ call'.pc = "idle")
          /\ resp'.op = "GetBestMove" => (call'.pc = "returned" /\ call'.ret = [move |-> NoMove, err |-> "game is over"])]_vars

C24_Witness == game.GameOver /\ resp = [op |-> "MakePlayerMove", err |-> "invalid move"] /\ game = Replay(MateLine, 7)

\* C25: every call of MakeMove made by the move handler for the automated
\* move runs on a game in which IsValidMove holds for that move: the source
\* cell holds a piece and the piece is of the side to move.
C25_AppliedMovesLegal ==
  [][(resp.op = HandlerOp /\ call.pc = "returned" /\ call'.pc = "done" /\ call.ret.err = "" /\ call.ret.move # NoMove) =>
       /\ game.Board[call.ret.move.From.Row][call.ret.move.From.Col] # Nil
       /\ game.Board[call.ret.move.From.Row][call.ret.move.From.Col].Color = game.CurrentTurn
       /\ IsValidMove(game, call.ret.move)]_vars

\* C26: when the deadline fires before the worker delivers, GetBestMove
\* returns the timeout fallback and not the worker's move, no move is applied
\* to the game, and the worker, once started, goes on: it completes its send
\* and terminates.
C26_AbandonedWorker ==
  /\ []((call.pc \in {"returned", "done"} /\ call.events # << >> /\ call.events[1] = "deadline") =>
          /\ call.ret = [move |-> call.moves[1], err |-> TimeoutError]
          /\ game.MoveHistory = call.entry.MoveHistory)
  /\ (ai.pc \in {"enum", "loop", "returned"} /\ call.events # << >> /\ call.events[1] = "deadline") ~> [](ai.pc = "sent")

\* C27: every move applied by MakePlayerMove, that is every step of the
\* handlers that lengthens the history other than the return of MakeAIMove,
\* moves a White piece; so every Black move of the history is MakeAIMove's.
C27_HumanMovesWhite ==
  [][(Len(game'.MoveHistory) = Len(game.MoveHistory) + 1 /\ ~(call.pc = "returned" /\ call'.pc = "done")) =>
       LET m == game'.MoveHistory[Len(game'.MoveHistory)]
       IN game.Board[m.From.Row][m.From.Col] # Nil /\ game.Board[m.From.Row][m.From.Col].Color = White]_vars

\* C28: when the handler has accepted a player move that left the game going,
\* the worker delivered before the deadline fired and no other request came
\* in between, the handler's MakeAIMove applies the worker's move, a Black
\* one, as the second new entry of the history and leaves White to move or the
\* game over; a player move that ends the game starts no search.
C28_OneAIMovePerPlayerMove ==
  /\ [][(resp.op = HandlerOp /\ call.pc = "returned" /\ call'.pc = "done" /\ call.events # << >> /\ call.events[1] = "delivered" /\ game = call.entry) =>
          /\ Len(game'.MoveHistory) = Len(call.entry.MoveHistory) + 1
          /\ game'.MoveHistory[Len(game'.MoveHistory)].From = ai.bestMove.From
          /\ game'.MoveHistory[Len(game'.MoveHistory)].To = ai.bestMove.To
          /\ game.Board[ai.bestMove.From.Row][ai.bestMove.From.Col].Color = Black
          /\ (game'.CurrentTurn = White \/ game'.GameOver)]_vars
  /\ [][(call.pc \in {"idle", "done"} /\ resp'.op = HandlerOp /\ game'.GameOver) => call'.pc = "idle"]_vars

\* C29: in the search of a game with Black to move, every call of minimax
\* that gets past the terminal cases has isMaximizing true exactly when Black
\* is to move in its game, so the moves it enumerates are those of the side to
\* move.
C29_FixedMaximiser ==
  (ai.pc = "loop" /\ ai.i <= Len(ai.moves) /\ game.CurrentTurn = Black) =>
    \A n \in minimaxNodes(MakeMove(CopyState(game).game, ai.moves[ai.i]), ai.depth - 1, 0 - INFINITY, INFINITY, FALSE) : n[2] <=> n[1] = Black

C29_Witness ==
  /\ ai.pc = "loop" /\ ai.i <= Len(ai.moves) /\ game.CurrentTurn = Black /\ ai.depth = 3
  /\ minimaxNodes(MakeMove(CopyState(game).game, ai.moves[ai.i]), ai.depth - 1, 0 - INFINITY, INFINITY, FALSE) = {<<White, FALSE>>, <<Black, TRUE>>}

\* C30: on a game that is over, minimax returns WIN_SCORE + d if Black has
\* won, -WIN_SCORE - d if White has won and 0 if it is drawn, d being the depth
\* left, 0 included and whatever the flag; so a win of Black scores strictly
\* more, and a loss strictly less, the more depth is left.
C30_FasterMates ==
  game.GameOver =>
    /\ \A d \in 0..MaxDepth, b \in BOOLEAN :
         minimax(game, d, 0 - INFINITY, INFINITY, b) =
           IF game.Winner = Black THEN WIN_SCORE + d ELSE IF game.Winner = White THEN 0 - WIN_SCORE - d ELSE 0
    /\ \A d \in 0..MaxDepth, e \in 0..MaxDepth :
         d < e =>
           /\ game.Winner = Black => minimax(game, d, 0 - INFINITY, INFINITY, FALSE) < minimax(game, e, 0 - INFINITY, INFINITY, FALSE)
           /\ game.Winner = White => minimax(game, d, 0 - INFINITY, INFINITY, FALSE) > minimax(game, e, 0 - INFINITY, INFINITY, FALSE)

C30_Witness == game.GameOver /\ game.Winner = Black /\ IsInCheck(game, White) /\ resp.op = "getBestMoveSync" /\ ai.pc = "returned"

\* C31: on a game that is not over the static evaluation is below WIN_SCORE
\* in absolute value; the value minimax returns for a candidate of
\* getBestMoveSync lies strictly between -INFINITY and INFINITY; and after
\* the first pass of the loop bestValue is no longer -INFINITY.
C31_ScoreBounds ==
  /\ ~game.GameOver => (0 - WIN_SCORE < evaluatePosition(game) /\ evaluatePosition(game) < WIN_SCORE)
  /\ (ai.pc = "loop" /\ ai.i <= Len(ai.moves)) =>
       /\ 0 - INFINITY < candidateValue(game, ai.depth, ai.moves[ai.i])
       /\ candidateValue(game, ai.depth, ai.moves[ai.i]) < INFINITY
  /\ (ai.pc = "loop" /\ ai.i > 1) => ai.bestValue > 0 - INFINITY

\* C32: getBestMoveSync, once in its loop, returns; on a game with a valid move
\* it returns one of the valid moves of the side to move of that game; and
\* every call of minimax is one level below its caller, never below 0, and
\* enumerates moves only above depth 0.
C32_SearchTerminates ==
  /\ []((ai.pc = "returned" /\ resp.op = "getBestMoveSync" /\ Len(GetValidMoves(game, game.CurrentTurn)) > 0) =>
          \E k \in DOMAIN GetValidMoves(game, game.CurrentTurn) : GetValidMoves(game, game.CurrentTurn)[k] = ai.bestMove)
  /\ []((ai.pc = "loop" /\ ai.i <= Len(ai.moves)) =>
          \A c \in searchCalls(game, ai.depth, ai.moves[ai.i]) : c[2] = c[1] - 1 /\ c[2] >= 0 /\ (c[3] => c[2] > 0))
  /\ (ai.pc = "loop") ~> (ai.pc = "returned")

C32_Witness ==
  /\ ai.pc = "returned" /\ resp.op = "getBestMoveSync" /\ ai.depth = 3 /\ ~game.GameOver
  /\ ai.i = Len(ai.moves) + 1 /\ Len(ai.moves) > 1 /\ ai.bestMove # ai.moves[1]

\* C33: GetValidMoves of the side to move lists exactly the pairs for which
\* IsValidMove holds, each once, in row-major order of the source square and
\* then of the destination square.
C33_EnumerationExactOrdered ==
  LET moves == GetValidMovesRun(game, game.CurrentTurn).moves
      valid == {k \in DOMAIN AllMoves : IsValidMove(game, AllMoves[k])}
      key(m) == ((m.From.Row * 8 + m.From.Col) * 8 + m.To.Row) * 8 + m.To.Col
  IN /\ \A n \in DOMAIN moves : \E k \in valid : AllMoves[k] = moves[n]
     /\ \A k \in valid : \E n \in DOMAIN moves : moves[n] = AllMoves[k]
     /\ Len(moves) = Cardinality(valid)
     /\ \A n \in 1..(Len(moves) - 1) : key(moves[n]) < key(moves[n + 1])

C33_Witness == Len(game.MoveHistory) = 1 /\ resp = [op |-> "MakePlayerMove", err |-> ""] /\ Len(GetValidMoves(game, game.CurrentTurn)) = 20

\* C34: GetValidMoves of the side not to move is empty, so the mobility term
\* is twice the count of Black's valid moves when Black is to move and minus
\* twice the count of White's when White is to move.
C34_NoMovesOffTurn ==
  /\ GetValidMovesRun(game, opponentColor(game.CurrentTurn)) = [moves |-> << >>, game |-> game]
  /\ GetValidMoves(game, opponentColor(game.CurrentTurn)) = << >>
  /\ mobility(game) = IF game.CurrentTurn = Black THEN 2 * Len(GetValidMoves(game, Black)) ELSE 0 - 2 * Len(GetValidMoves(game, White))

C34_Witness == game.CurrentTurn = Black /\ resp = [op |-> "MakePlayerMove", err |-> ""] /\ mobility(game) = 40 /\ Len(GetValidMoves(game, Black)) = 20

\* C35: the entry a move appends to the history holds the piece that moved, and
\* its CapturedPiece is every enemy piece the move took off the board, absent
\* exactly when none was taken off.
C35_HistoryRecordsCapture ==
  [][Len(game'.MoveHistory) = Len(game.MoveHistory) + 1 =>
       LET last == game'.MoveHistory[Len(game'.MoveHistory)]
           mover == game.Board[last.From.Row][last.From.Col]
           removed == {sq \in Squares : game.Board[sq.Row][sq.Col] # Nil /\ game.Board[sq.Row][sq.Col].Color = opponentColor(mover.Color) /\ game'.Board[sq.Row][sq.Col] # game.Board[sq.Row][sq.Col]}
       IN /\ last.Piece = mover
          /\ \A sq \in removed : last.CapturedPiece = game.Board[sq.Row][sq.Col]
          /\ last.CapturedPiece = Nil <=> removed = {}]_vars

\* ------------------------------------------------------------------------
\* C36: castling and promotion are not supported: no entry of MoveHistory
\* has IsCastle or IsPromotion set; an accepted king move changes the king's
\* row and column by at most one; and MakeMove leaves on the destination
\* square exactly the piece it took from the source square, type and colour
\* unchanged, so a pawn arriving on row 0 or row 7 is still a pawn.
\* ------------------------------------------------------------------------
C36_NoCastlingNoPromotion ==
  /\ [](\A k \in DOMAIN game.MoveHistory : ~game.MoveHistory[k].IsCastle /\ ~game.MoveHistory[k].IsPromotion)
  /\ [][Len(game'.MoveHistory) = Len(game.MoveHistory) + 1 =>
         LET last == game'.MoveHistory[Len(game'.MoveHistory)]
             mover == game.Board[last.From.Row][last.From.Col]
             dx == last.To.Col - last.From.Col
             dy == last.To.Row - last.From.Row
         IN /\ mover.Type = King => (dx \in -1..1 /\ dy \in -1..1)
            /\ game'.Board[last.To.Row][last.To.Col] = mover
            /\ mover.Type = Pawn /\ last.To.Row \in {0, 7} => game'.Board[last.To.Row][last.To.Col].Type = Pawn]_vars

\* the White pawn of PromotionLine has just captured on g8 and stands there as a pawn
C36_Witness ==
  /\ Len(game.MoveHistory) = 9
  /\ resp = [op |-> "MakePlayerMove", err |-> ""]
  /\ game.MoveHistory[9].Piece = Piece(Pawn, White)
  /\ game.MoveHistory[9].To = [Row |-> 0, Col |-> 6]
  /\ game.Board[0][6] = Piece(Pawn, White)

\* ------------------------------------------------------------------------
\* New games beside the AI's settings
\* ------------------------------------------------------------------------
\* the games played before a new one is asked for: one that ends in mate, one
\* with a king move and an en-passant target, one with captures
NewGameLines == <<MateLine, EnPassantCheckLine, PromotionLine>>

\* the next request of a game of NewGameLines, validated and applied
PlayerMoveScripted == \E req \in Scripted(NewGameLines, game.MoveHistory) :
  /\ IsValidMove(game, Move(req[1], req[2]))
  /\ LET out == MakePlayerMove(game, req[1], req[2])
     IN game' = out.game /\ resp' = [op |-> "MakePlayerMove", err |-> out.err]
  /\ UNCHANGED <<cloneVars, aiVars>>

NextNewGame == PlayerMoveScripted \/ SetDepthCall \/ NewGame

SpecNewGame == Init /\ [][NextNewGame]_vars

\* ------------------------------------------------------------------------
\* C37: a step of ChessService.NewGame, from any state, leaves the game equal
\* to a fresh NewChessGame: the standard position, White to move, an empty
\* history, no en-passant target, every moved flag false, GameOver false and
\* no winner; the AI's configured depth is what it was before the step.
\* ------------------------------------------------------------------------
C37_NewGameReplaces ==
  [][resp'.op = "NewGame" =>
       LET backRank == <<Rook, Knight, Bishop, Queen, King, Bishop, Knight, Rook>>
       IN /\ game' = NewChessGame
          /\ \A j \in Rows : /\ game'.Board[0][j] = Piece(backRank[j + 1], Black)
                             /\ game'.Board[1][j] = Piece(Pawn, Black)
                             /\ \A i \in 2..5 : game'.Board[i][j] = Nil
                             /\ game'.Board[6][j] = Piece(Pawn, White)
                             /\ game'.Board[7][j] = Piece(backRank[j + 1], White)
          /\ game'.CurrentTurn = White
          /\ game'.MoveHistory = << >>
          /\ game'.EnPassant = NilPos
          /\ \A c \in {White, Black} : ~game'.KingMoved[c] /\ \A col \in Rows : ~game'.RookMoved[c][col]
          /\ ~game'.GameOver
          /\ game'.Winner = ""
          /\ ai'.depth = ai.depth]_vars

\* a new game started while the AI's depth is 2, not the default
C37_Witness == resp = [op |-> "NewGame", err |-> ""] /\ game = NewChessGame /\ ai.depth = 2 /\ ai.depth # DEFAULT_DEPTH

\* ------------------------------------------------------------------------
\* Colour mirroring
\* ------------------------------------------------------------------------
\* the piece of the other colour
mirrorPiece(p) == IF p = Nil THEN Nil ELSE Piece(p.Type, opponentColor(p.Color))

\* the square on the other side of the board, same column
mirrorPos(pos) == IF pos = NilPos THEN NilPos ELSE Position(7 - pos.Row, pos.Col)

mirrorMove(m) == [m EXCEPT !.From = mirrorPos(@), !.To = mirrorPos(@), !.Piece = mirrorPiece(@), !.CapturedPiece = mirrorPiece(@)]

\* the mirror of a game: rows flipped top to bottom, colours swapped, the
\* side to move, the en-passant target, the moved flags, the history and the
\* winner mirrored with them
mirror(g) ==
  [Board |-> [i \in Rows |-> [j \in Rows |-> mirrorPiece(g.Board[7 - i][j])]],
   CurrentTurn |-> opponentColor(g.CurrentTurn),
   GameOver |-> g.GameOver,
   Winner |-> IF g.Winner = White THEN Black ELSE IF g.Winner = Black THEN White ELSE g.Winner,
   MoveHistory |-> [k \in 1..Len(g.MoveHistory) |-> mirrorMove(g.MoveHistory[k])],
   EnPassant |-> mirrorPos(g.EnPassant),
   KingMoved |-> [c \in {White, Black} |-> g.KingMoved[opponentColor(c)]],
   RookMoved |-> [c \in {White, Black} |-> g.RookMoved[opponentColor(c)]]]

\* ------------------------------------------------------------------------
\* C38: the evaluation is antisymmetric under colour mirroring: for every
\* game that is not over, evaluatePosition of its mirror is the negative of
\* its evaluatePosition; and evaluatePiece gives a Black piece on (r, c) the
\* value it gives a White piece of the same type on (7 - r, c).
\* ------------------------------------------------------------------------
C38_EvaluationAntisymmetric ==
  /\ ~game.GameOver => evaluatePosition(mirror(game)) = 0 - evaluatePosition(game)
  /\ \A t \in {Pawn, Knight, Bishop, Rook, Queen, King} : \A sq \in Squares :
        evaluatePiece(Piece(t, Black), sq.Row, sq.Col) = evaluatePiece(Piece(t, White), 7 - sq.Row, sq.Col)

\* a game with an en-passant target, Black to move and the Black king off
\* its back rank, whose evaluation is not 0 and whose mirror has White to move
C38_Witness ==
  /\ ~game.GameOver
  /\ game.KingMoved[Black]
  /\ game.Board[0][4] = Nil
  /\ resp = [op |-> "MakePlayerMove", err |-> ""]
  /\ game.CurrentTurn = Black
  /\ game.EnPassant # NilPos
  /\ evaluatePosition(game) # 0
  /\ mirror(game).CurrentTurn = White
  /\ mirror(game).EnPassant = Position(7 - game.EnPassant.Row, game.EnPassant.Col)
  /\ evaluatePosition(mirror(game)) = 0 - evaluatePosition(game)

====
